---- MODULE Spec2Model ----
(***************************************************************************)
(* A model of poke-env's turn synchronizer (PokeEnv.step / reset / close   *)
(* over the two _EnvPlayer seats and their capacity-1 asyncio queues) and  *)
(* of the singles and doubles action codecs.                               *)
(*                                                                         *)
(* Spec      : the synchronizer.  The caller thread runs step, reset and   *)
(*             close; the event loop runs the seats' _env_move coroutines  *)
(*             and the battle-finished callbacks.  The Player base class   *)
(*             and the game server are not part of the sources: they are   *)
(*             modelled from the specification (requests, wait requests,   *)
(*             rejected choices, win messages).                            *)
(* ResetSpec : reset alone, on references, flags and battle queues set from *)
(*             outside while the players do not listen.                    *)
(* LiveSpec  : Spec with the fairness of the caller thread and of the      *)
(*             event loop.                                                 *)
(* HelperSpec: the classification of an episode's end (calc_term_trunc and *)
(*             the last lines of the two step methods) and the reward      *)
(*             helper with its buffer, applied to bounded battles.         *)
(* CodecSpec : the action codecs as pure functions.  Init draws a battle, the  *)
(*             fake and strict flags; each action applies one conversion to *)
(*             an action or an order and converts the result back.          *)
(***************************************************************************)
EXTENDS Integers, Sequences, FiniteSets, TLC

\* ---------------------------------------------------------------- bounds
MaxBattles == 3      \* resets (challenge tasks) the caller may launch
MaxTurns   == 4      \* requests the server issues (turns and rejected choices), in all

\* ------------------------------------------------------ program constants
QueueSize == 1       \* asyncio.Queue(maxsize=1) of both queues of a seat
_INIT_RETRIES == 100 \* PokeEnv._INIT_RETRIES: sleeps reset grants the match to start

Seats == {1, 2}
Other(s) == 3 - s
None == 0

Forfeit == "forfeit"     \* ForfeitBattleOrder()
Default == "default"     \* DefaultBattleOrder()
Move    == "move"        \* any other decoded order

VARIABLES
  pc,             \* position of the caller thread
  strict,         \* PokeEnv._strict
  battle,         \* battle1 / battle2: the battle the synchronizer tracks per seat
  agent_battle,   \* agent1.battle / agent2.battle: the battle attached to the player
  to_move,        \* agent1_to_move / agent2_to_move
  battle_queue,   \* per seat: the "state out" queue
  order_queue,    \* per seat: the "order in" queue
  putters,        \* per seat: puts blocked on the full battle queue, oldest first
  getters,        \* per seat: _env_move coroutines awaiting an order, oldest first
  waiting,        \* per seat: the _waiting event
  trying_again,   \* per seat: the _trying_again event
  challenge_task, \* _challenge_task: None or the number of the task
  nTasks,         \* challenge tasks launched so far (task t plays battle t)
  finishedUpTo,   \* per seat: battles 1..finishedUpTo[s] are marked finished
  srvBattle,      \* the battle the server is running (0: none yet)
  srvFinished,    \* the server's battle is over
  turns,          \* turns started and choices rejected by the server so far
  need,           \* per seat: the server awaits a choice of the seat
  inbox,          \* per seat: server messages not handled yet, oldest first
  outbox,         \* per seat: choices sent to the server, not yet processed by it
  pending,        \* caller: forced orders still to enqueue (reset)
  got,            \* caller: race_get results of the running step (None: 0)
  count,          \* caller: retries left in reset's wait for the match
  op,             \* history: the caller's current or last operation
  ret,            \* history: "none" while it runs, then "ok" or "raise"
  sent,           \* history: per seat, the orders the operation enqueued
  pre_to_move,    \* history: to_move when the operation began
  drained,        \* history: per seat, the snapshot reset's forfeit path took
  discarded,      \* history: per seat, the orders close's drain removed
  pre_task,       \* history: _challenge_task when the operation began
  cmode,          \* codec: "idle", "singles" (SinglesEnv), "doubles" (DoublesEnv)
                  \*        or "slot" (DoublesEnv's per-slot conversions)
  cbattle,        \* codec: the battle handed to the conversion
  cfake,          \* codec: the fake flag
  cop,            \* codec: "none", "decode" (action_to_order) or "encode"
  caction,        \* codec: the action converted (one element per slot)
  cpos,           \* codec: the slot a per-slot conversion is applied to
  corder,         \* codec: the order converted
  cres,           \* codec: what the conversion returned or raised
  cback,          \* codec: what converting the result back returned or raised
  hmode,          \* helpers: "idle", "term" (episode end) or "reward"
  hbattle,        \* helpers: the battle handed to the helper
  hop,            \* helpers: "none" or the helper that ran last
  hres,           \* helpers: what the helper returned
  reward_buffer,  \* PokeEnv._reward_buffer: the value stored for the battle
  hweights,       \* helpers: the weights of the last reward call
  hsince,         \* helpers: "none" before the first reward call, then whether
                  \*          the battle is "same" or "changed" since the last one
  websocket,      \* Client.websocket is not None
  room,           \* Client.room
  message_type,   \* find_message: the kind awaited, "none" before the first call
  timeout,        \* find_message: None or the timeout passed, in ticks
  message,        \* find_message: the message received last
  found,          \* find_message: waiting, or what it returned or raised
  elapsed,        \* ticks since find_message was called
  waited,         \* ticks since the receive_message under way was called
  rq_items,       \* race_get: the items of the asyncio queue, oldest first
  rq_getters,     \* race_get: the tasks whose getter waits on the queue
  task,           \* race_get: per task, its state and the item it holds
  event,          \* race_get: the companion event is set
  raced,          \* race_get: idle, racing, or returned with its value
  nput,           \* race_get: items put so far (item i is the i-th put)
  received,       \* race_get: the items the caller received, in order
  base_agent_battle,  \* BaseEnv.agent_battle (unset until the first reset)
  agent_request,      \* BaseEnv.agent_request
  env_player_battle,  \* BaseEnv.env_player_battle
  env_player_request, \* BaseEnv.env_player_request
  bpc,            \* BaseEnv: position of the _reset_async or _async_step under way
  transcript,     \* BaseEnv: what the running or last operation did on the
                  \*          two connections, oldest first
  bret,           \* BaseEnv: "none", or how the last operation ended
  obattle,        \* observe: the battle the player tracks, None before the first call
  oseen,          \* observe: whether the last call read a request, the Pokémon
                  \*          it listed, and the end of the battle its batch announced
  second_teampreview_action, \* SingleAgentWrapper.second_teampreview_action
  wbattle2,       \* SingleAgentWrapper: env.battle2 (teampreview, format)
  wsteps,         \* SingleAgentWrapper: what the steps since the last reset did
  wret            \* SingleAgentWrapper: "none", or how the last call ended

syncVars == << pc, strict, battle, agent_battle, to_move, battle_queue, order_queue,
               putters, getters, waiting, trying_again, challenge_task, nTasks,
               finishedUpTo, srvBattle, srvFinished, turns, need, inbox,
               outbox, pending, got, count, op, ret, sent, pre_to_move, drained,
               discarded, pre_task >>

codecVars == << cmode, cbattle, cfake, cop, caction, cpos, corder, cres, cback >>

helperVars == << hmode, hbattle, hop, hres, reward_buffer, hweights, hsince >>

clientVars == << websocket, room, message_type, timeout, message, found, elapsed,
                 waited >>

raceVars == << rq_items, rq_getters, task, event, raced, nput, received >>

baseVars == << base_agent_battle, agent_request, env_player_battle,
               env_player_request, bpc, transcript, bret >>

obsVars == << obattle, oseen >>

wrapVars == << second_teampreview_action, wbattle2, wsteps, wret >>

vars == << syncVars, codecVars, helperVars, clientVars, raceVars, baseVars, obsVars, wrapVars >>

\* what no step of the synchronizer changes
fixed == << strict, count, codecVars, helperVars, clientVars, raceVars, baseVars, obsVars, wrapVars >>

loopVars == << agent_battle, battle_queue, putters, getters, waiting, trying_again,
               finishedUpTo, srvBattle, srvFinished, turns, need, inbox, outbox >>
histVars == << op, ret, sent, pre_to_move, drained, discarded, pre_task >>

\* --------------------------------------------------------------- helpers
Item(b, k) == [b |-> b, kind |-> k]
NoItem == Item(None, "none")

\* battle.finished of seat s's battle object b
Finished(s, b) == b # None /\ b <= finishedUpTo[s]

\* _challenge_task.done(): battle_against returns once both players saw the end
TaskDone(t) == \A s \in Seats : finishedUpTo[s] >= t

NeverFull(q) == FALSE

Full(q) == Len(q) >= QueueSize

NoOrders == [s \in Seats |-> <<>>]

\* An order and an _env_move awaiting one never stay side by side: a put on
\* the order queue wakes the oldest waiting async_get, and an async_get on a
\* non-empty queue returns at once; either way the _env_move returns the order
\* and the player sends it to the battle of that _env_move, all before the
\* caller thread sees the result of its own call.
Meets(oq, gt, s) == oq[s] # << >> /\ gt[s] # << >>

Choice(b, o) == [b |-> b, order |-> o]

Handoff(oq, gt) ==
  /\ order_queue' = [s \in Seats |-> IF Meets(oq, gt, s) THEN Tail(oq[s]) ELSE oq[s]]
  /\ getters' = [s \in Seats |-> IF Meets(oq, gt, s) THEN Tail(gt[s]) ELSE gt[s]]
  /\ outbox' = [s \in Seats |->
                  IF Meets(oq, gt, s)
                    THEN Append(outbox[s], Choice(Head(gt[s]), Head(oq[s])))
                    ELSE outbox[s]]

\* A get on seat s's battle queue wakes the oldest put blocked on it, and that
\* put completes before the getter's result reaches the caller thread: its item
\* enters the queue, and an _env_move goes on to await its order.
QueueAfterGet(s) ==
  IF putters[s] # << >> THEN << Head(putters[s]) >> ELSE << >>
PuttersAfterGet(s) ==
  IF putters[s] # << >> THEN Tail(putters[s]) ELSE << >>
GettersAfterGet(s) ==
  IF putters[s] # << >> /\ Head(putters[s]).kind = "move"
    THEN Append(getters[s], Head(putters[s]).b) ELSE getters[s]
AllGettersAfterGet == [s \in Seats |-> GettersAfterGet(s)]

\* _AsyncQueue.get on the battle queue of seat s, as the caller thread sees it
Get(s) ==
  /\ battle_queue[s] # << >>
  /\ battle_queue' = [battle_queue EXCEPT ![s] = QueueAfterGet(s)]
  /\ putters' = [putters EXCEPT ![s] = PuttersAfterGet(s)]
  /\ Handoff(order_queue, [getters EXCEPT ![s] = GettersAfterGet(s)])

\* The event loop runs other tasks only when the running coroutine suspends:
\* _stop_challenge_loop goes from its forfeit to its drain without suspending
\* unless it waits for the challenge task.
LoopFree == pc # "close_clear"

\* ------------------------------------------------------------------ Init
SyncInit ==
  /\ pc = "idle"
  /\ strict \in BOOLEAN
  /\ battle = [s \in Seats |-> None]
  /\ agent_battle = [s \in Seats |-> None]
  /\ to_move = [s \in Seats |-> FALSE]
  /\ battle_queue = [s \in Seats |-> <<>>]
  /\ order_queue = [s \in Seats |-> <<>>]
  /\ putters = [s \in Seats |-> <<>>]
  /\ getters = [s \in Seats |-> <<>>]
  /\ waiting = [s \in Seats |-> FALSE]
  /\ trying_again = [s \in Seats |-> FALSE]
  /\ challenge_task = None
  /\ nTasks = 0
  /\ finishedUpTo = [s \in Seats |-> 0]
  /\ srvBattle = 0
  /\ srvFinished = FALSE
  /\ turns = 0
  /\ need = [s \in Seats |-> FALSE]
  /\ inbox = [s \in Seats |-> <<>>]
  /\ outbox = [s \in Seats |-> <<>>]
  /\ pending = <<>>
  /\ got = [s \in Seats |-> None]
  /\ count = _INIT_RETRIES
  /\ op = "none"
  /\ ret = "none"
  /\ sent = NoOrders
  /\ pre_to_move = [s \in Seats |-> FALSE]
  /\ drained = [s \in Seats |-> NoItem]
  /\ discarded = NoOrders
  /\ pre_task = None

\* the codec at rest: the synchronizer's runs convert nothing
CodecIdle ==
  /\ cmode = "idle"
  /\ cbattle = [mode |-> "idle"]
  /\ cfake = FALSE
  /\ cop = "none"
  /\ caction = << >>
  /\ cpos = 1
  /\ corder = [kind |-> "none"]
  /\ cres = [kind |-> "none"]
  /\ cback = [kind |-> "none"]

\* the helpers at rest
HelperIdle ==
  /\ hmode = "idle"
  /\ hbattle = [mode |-> "idle"]
  /\ hop = "none"
  /\ hres = [kind |-> "none"]
  /\ reward_buffer = [kind |-> "none"]
  /\ hweights = [kind |-> "none"]
  /\ hsince = "none"

\* the client at rest: no call of find_message
NoRoom == "None"                   \* self.room is None
NoMessage == << "nothing received" >>

ClientIdle ==
  /\ websocket = FALSE
  /\ room = NoRoom
  /\ message_type = "none"
  /\ timeout = None
  /\ message = NoMessage
  /\ found = [status |-> "idle", value |-> << >>]
  /\ elapsed = 0
  /\ waited = 0

\* no race_get under way
RaceIdle ==
  /\ rq_items = << >>
  /\ rq_getters = << >>
  /\ task = [t \in {"get_task", "wait_task", "get"} |-> [st |-> "none", item |-> None]]
  /\ event = FALSE
  /\ raced = [status |-> "idle", value |-> None]
  /\ nput = 0
  /\ received = << >>

\* Python values: None, an int, a str
PyNone == [kind |-> "None"]

PyInt(n) == [kind |-> "int", v |-> n]

PyStr(s) == [kind |-> "str", s |-> s]

\* a BaseEnv just constructed: __init__ assigns neither battles nor requests
Unassigned == [kind |-> "unassigned"]

BaseIdle ==
  /\ base_agent_battle = Unassigned
  /\ agent_request = Unassigned
  /\ env_player_battle = Unassigned
  /\ env_player_request = Unassigned
  /\ bpc = "idle"
  /\ transcript = << >>
  /\ bret = "none"

\* no observe call yet
ObsIdle ==
  /\ obattle = PyNone
  /\ oseen = [request |-> FALSE, listed |-> {}, ended |-> "no"]

\* a SingleAgentWrapper just constructed, around an env without battle
WrapIdle ==
  /\ second_teampreview_action = PyNone
  /\ wbattle2 = PyNone
  /\ wsteps = << >>
  /\ wret = "none"

Init ==
  SyncInit /\ CodecIdle /\ HelperIdle /\ ClientIdle /\ RaceIdle /\ BaseIdle /\ ObsIdle
    /\ WrapIdle

\* The history of a caller operation that begins.
Called(name) ==
  /\ op' = name
  /\ sent' = NoOrders
  /\ pre_to_move' = to_move
  /\ drained' = [s \in Seats |-> NoItem]
  /\ discarded' = NoOrders
  /\ pre_task' = challenge_task

\* The operation begins and goes on.
Begin(name) == Called(name) /\ ret' = "none"

\* The operation ends: it returns ("ok") or raises ("raise").
End(r) == pc' = "idle" /\ ret' = r

\* ------------------------------------------------------------ PokeEnv.step
ActionKinds == {"legal", "illegal", "forfeit", "default"}

\* action_to_order as step uses it: the order, or "raise" (strict mode)
DecodeKind(a, st) ==
  CASE a = "legal"   -> Move
    [] a = "forfeit" -> Forfeit
    [] a = "default" -> Default
    [] OTHER         -> IF st THEN "raise" ELSE Default

StepPc(s) == IF s = 1 THEN "step1" ELSE "step2"
RacePc(s) == IF s = 1 THEN "race1" ELSE "race2"

\* the asserts on entry: both battles tracked and unfinished
StepBegin ==
  /\ pc = "idle"
  /\ \A s \in Seats : battle[s] # None /\ ~Finished(s, battle[s])
  /\ pc' = "step1"
  /\ Begin("step")
  /\ got' = [s \in Seats |-> None]
  /\ UNCHANGED << fixed, battle, to_move, order_queue, challenge_task, nTasks,
                  pending, loopVars >>

AgentAlwaysToMove(s) == TRUE

\* `if self.agentN_to_move:`
AgentToMove(s) == to_move[s]

\* if self.agentN_to_move: clear the flag, decode the action, put the order
StepOrder(s) ==
  /\ pc = StepPc(s)
  /\ IF ~AgentToMove(s)
       THEN /\ pc' = IF s = 1 THEN "step2" ELSE "race1"
            /\ UNCHANGED << to_move, order_queue, getters, outbox, sent, ret >>
       ELSE \E a \in ActionKinds :
              LET o == DecodeKind(a, strict) IN
              IF o = "raise"
                THEN /\ to_move' = [to_move EXCEPT ![s] = FALSE]
                     /\ End("raise")
                     /\ UNCHANGED << order_queue, getters, outbox, sent >>
                ELSE /\ ~Full(order_queue[s])
                     /\ to_move' = [to_move EXCEPT ![s] = FALSE]
                     /\ Handoff([order_queue EXCEPT ![s] = Append(@, o)], getters)
                     /\ sent' = [sent EXCEPT ![s] = Append(@, o)]
                     /\ pc' = IF s = 1 THEN "step2" ELSE "race1"
                     /\ UNCHANGED ret
  /\ UNCHANGED << fixed, battle, challenge_task, nTasks, pending, got, op,
                  pre_to_move, drained, discarded, pre_task, agent_battle,
                  battle_queue, putters, waiting, trying_again, finishedUpTo,
                  srvBattle, srvFinished, turns, need, inbox >>

\* _AsyncQueue.race_get(own _waiting, peer _trying_again): the item if the
\* get completed, None if only an event fired
RaceResult(q, events) ==
  IF q # <<>> THEN Head(q).b ELSE None

RaceEnabledByItem(q, events) == q # <<>>

\* race_get returns once its get or one of its event waits is done
RaceEnabled(q, events) == q # <<>> \/ events

StepRace(s) ==
  /\ pc = RacePc(s)
  /\ LET ev == waiting[s] \/ trying_again[Other(s)] IN
     /\ RaceEnabled(battle_queue[s], ev)
     /\ got' = [got EXCEPT ![s] = RaceResult(battle_queue[s], ev)]
     /\ IF battle_queue[s] # << >>
          THEN Get(s)
          ELSE UNCHANGED << battle_queue, putters, getters, order_queue, outbox >>
  /\ pc' = IF s = 1 THEN "race2" ELSE "step_end"
  /\ UNCHANGED << fixed, battle, agent_battle, to_move,
                  waiting, trying_again, challenge_task, nTasks, finishedUpTo,
                  srvBattle, srvFinished, turns, need, inbox, pending,
                  histVars >>

\* lines 432-441: the flags follow the snapshots, the events are cleared
TryingAfterStep(g) ==
  [s \in Seats |-> IF g[Other(s)] = None THEN FALSE ELSE trying_again[s]]

\* lines 436-441: the battle handed to embed_battle, calc_reward and
\* calc_term_trunc for seat s, given the results g of the two race_get
StepBattleNoFallback(g, s) == g[s]

StepBattle(g, s) == IF g[s] = None THEN battle[s] ELSE g[s]

StepEnd ==
  /\ pc = "step_end"
  /\ to_move' = [s \in Seats |-> got[s] # None]
  /\ waiting' = [s \in Seats |-> FALSE]
  /\ trying_again' = TryingAfterStep(got)
  /\ End("ok")
  /\ UNCHANGED << fixed, battle, agent_battle, battle_queue, order_queue, putters,
                  getters, challenge_task, nTasks, finishedUpTo, srvBattle,
                  srvFinished, turns, need, inbox, outbox, pending, got, op, sent,
                  pre_to_move, drained, discarded, pre_task >>

\* ----------------------------------------------------------- PokeEnv.reset
Put(s, o) == [seat |-> s, order |-> o]

ForcedOrdersBoth(tm) ==
  IF tm[1]
    THEN << Put(1, Forfeit), Put(2, Default) >>
    ELSE << Put(2, Forfeit), Put(1, Default) >>

\* The orders a forced forfeit sends (reset lines 467-476, and the same
\* branches of _stop_challenge_loop lines 840-849), in the order they are put.
ForcedOrders(tm) ==
  IF tm[1]
    THEN << Put(1, Forfeit) >> \o (IF tm[2] THEN << Put(2, Default) >> ELSE << >>)
    ELSE << Put(2, Forfeit) >>

\* `if self.battle1 and not self.battle1.finished` with its asserts and the
\* desynchronization error
AlwaysInSync == TRUE

\* `if self.battle1 == self.agent1.battle:`
InSync == battle[1] = agent_battle[1]

ResetBegin ==
  /\ pc = "idle"
  /\ nTasks < MaxBattles
  /\ Called("reset")
  /\ IF battle[1] # None /\ ~Finished(1, battle[1])
       THEN IF /\ battle[2] # None
               /\ InSync
               /\ (to_move[1] \/ to_move[2])
              THEN /\ pending' = ForcedOrders(to_move)
                   /\ pc' = "reset_put"
              ELSE /\ pc' = "idle"
                   /\ UNCHANGED pending
       ELSE /\ pc' = "reset_task"
            /\ UNCHANGED pending
  /\ ret' = IF pc' = "idle" THEN "raise" ELSE "none"
  /\ UNCHANGED << fixed, battle, to_move, order_queue, challenge_task, nTasks,
                  got, loopVars >>

\* self.agentN_to_move = False; self.agentN.order_queue.put(...)
ResetPut ==
  /\ pc = "reset_put"
  /\ LET h == Head(pending) IN
     /\ ~Full(order_queue[h.seat])
     /\ Handoff([order_queue EXCEPT ![h.seat] = Append(@, h.order)], getters)
     /\ to_move' = [to_move EXCEPT ![h.seat] = FALSE]
     /\ sent' = [sent EXCEPT ![h.seat] = Append(@, h.order)]
  /\ pending' = Tail(pending)
  /\ pc' = IF Tail(pending) = << >> THEN "reset_get1" ELSE "reset_put"
  /\ UNCHANGED << fixed, battle, challenge_task, nTasks, got, op, ret, pre_to_move,
                  drained, discarded, pre_task, agent_battle, battle_queue, putters,
                  waiting, trying_again, finishedUpTo, srvBattle, srvFinished,
                  turns, need, inbox >>

\* self.agentN.battle_queue.get() of the forfeit path: the item is dropped
ResetDrain(s) ==
  /\ pc = (IF s = 1 THEN "reset_get1" ELSE "reset_get2")
  /\ Get(s)
  /\ drained' = [drained EXCEPT ![s] = Head(battle_queue[s])]
  /\ pc' = IF s = 1 THEN "reset_get2" ELSE "reset_task"
  /\ UNCHANGED << fixed, battle, agent_battle, to_move,
                  waiting, trying_again, challenge_task, nTasks, finishedUpTo,
                  srvBattle, srvFinished, turns, need, inbox, pending, got,
                  op, ret, sent, pre_to_move, discarded, pre_task >>

\* self._challenge_task = run_coroutine_threadsafe(agent1.battle_against(agent2))
\* and `count = self._INIT_RETRIES` where the retry loop is entered
ResetTask ==
  /\ pc = "reset_task"
  /\ nTasks' = nTasks + 1
  /\ challenge_task' = nTasks + 1
  /\ pc' = "reset_wait"
  /\ count' = _INIT_RETRIES
  /\ UNCHANGED << strict, codecVars, helperVars, clientVars, raceVars, baseVars, obsVars, wrapVars, battle, to_move, order_queue,
                  pending, got, histVars, loopVars >>

Attached == \A s \in Seats : agent_battle[s] # None

\* the retry loop on `not self.agent1.battle or not self.agent2.battle` as the
\* event loop meets it: it is left at a test that finds both seats attached,
\* or by the error once the retries are used up.  The event loop may take any
\* number of steps during one sleep and none during all of them, so the
\* retries left restrict nothing here; ResetRetry counts them.
\* "Agent is not challenging" is fatal: the caller makes no further call (the
\* challenge task goes on, and what the players do with a second match asked
\* for meanwhile is outside the sources).
ResetWait ==
  /\ pc = "reset_wait"
  /\ IF Attached
       THEN pc' = "reset_new1" /\ UNCHANGED ret
       ELSE pc' = "failed" /\ ret' = "raise"
  /\ UNCHANGED << fixed, battle, to_move, order_queue, challenge_task, nTasks,
                  pending, got, op, sent, pre_to_move, drained, discarded, pre_task,
                  loopVars >>

\* one test of the retry loop, sleep by sleep: go on (the local count goes out
\* of use), raise when no retry is left, or sleep once more
ResetRetry ==
  /\ pc = "reset_wait"
  /\ IF Attached
       THEN pc' = "reset_new1" /\ count' = _INIT_RETRIES /\ UNCHANGED ret
       ELSE IF count = 0
         THEN pc' = "failed" /\ ret' = "raise" /\ UNCHANGED count
         ELSE count' = count - 1 /\ UNCHANGED << pc, ret >>
  /\ UNCHANGED << strict, codecVars, helperVars, clientVars, raceVars, baseVars, obsVars, wrapVars, battle, to_move, order_queue,
                  challenge_task, nTasks, pending, got, op, sent, pre_to_move,
                  drained, discarded, pre_task, loopVars >>

\* self.battleN = self.agentN.battle_queue.get(); then both flags are set
ResetNew(s) ==
  /\ pc = (IF s = 1 THEN "reset_new1" ELSE "reset_new2")
  /\ Get(s)
  /\ battle' = [battle EXCEPT ![s] = Head(battle_queue[s]).b]
  /\ IF s = 1
       THEN pc' = "reset_new2" /\ UNCHANGED << to_move, ret >>
       ELSE to_move' = [x \in Seats |-> TRUE] /\ End("ok")
  /\ UNCHANGED << fixed, agent_battle, waiting,
                  trying_again, challenge_task, nTasks, finishedUpTo, srvBattle,
                  srvFinished, turns, need, inbox, pending, got, op, sent,
                  pre_to_move, drained, discarded, pre_task >>

\* ----------------------------------------------------------- PokeEnv.close
\* close() calls _stop_challenge_loop(wait=False, purge=purge)
CloseWait == FALSE

CloseBegin ==
  /\ pc = "idle"
  /\ pc' = "close1"
  /\ Begin("close")
  /\ UNCHANGED << fixed, battle, to_move, order_queue, challenge_task, nTasks,
                  pending, got, loopVars >>

\* lines 531-538: a missing or finished battle is replaced, after a sleep, by
\* the battle attached to the player
CloseSync(s) ==
  /\ pc = (IF s = 1 THEN "close1" ELSE "close2")
  /\ battle' = IF battle[s] = None \/ Finished(s, battle[s])
                 THEN [battle EXCEPT ![s] = agent_battle[s]]
                 ELSE battle
  /\ pc' = IF s = 1 THEN "close2" ELSE "close_stop"
  /\ UNCHANGED << fixed, to_move, order_queue, challenge_task, nTasks, pending, got,
                  histVars, loopVars >>

Unfinished1 == battle[1] # None /\ ~Finished(1, battle[1])

SeatOneOrdersEmpty == order_queue[1] = << >>

OrdersEmpty == \A s \in Seats : order_queue[s] = << >>

\* the flags after the forced orders: the branch for seat 2 alone assigns
\* self.agent_to_move, not self.agent2_to_move
ToMoveAfterForce(tm) ==
  IF tm[1] THEN [s \in Seats |-> FALSE] ELSE tm

AfterForcePc ==
  IF CloseWait /\ challenge_task # None /\ ~TaskDone(challenge_task)
    THEN "close_wait" ELSE "close_clear"

\* the orders of a list of puts that go to seat s
OrdersFor(s, f) ==
  LET mine == SelectSeq(f, LAMBDA h : h.seat = s) IN
  [i \in 1..Len(mine) |-> mine[i].order]

\* an _env_move woken by a put that finds its order gone waits again, behind
\* the other waiting ones
Requeue(gt, oq) ==
  [s \in Seats |-> IF Meets(oq, gt, s) THEN Append(Tail(gt[s]), Head(gt[s])) ELSE gt[s]]

\* _stop_challenge_loop lines 836-849: one item is taken from each non-empty
\* battle queue, then the forced orders are put on the (empty) order queues.
\* The coroutine does not suspend on the way unless it goes on to wait for the
\* challenge task; with neither seat to move the assertion of line 847 fails.
ForcePart ==
  IF to_move[1] \/ to_move[2]
    THEN /\ sent' = [s \in Seats |-> OrdersFor(s, ForcedOrders(to_move))]
         /\ to_move' = ToMoveAfterForce(to_move)
         /\ pc' = AfterForcePc
         /\ UNCHANGED ret
         /\ IF AfterForcePc = "close_wait"
              THEN /\ battle_queue' = [s \in Seats |-> QueueAfterGet(s)]
                   /\ putters' = [s \in Seats |-> PuttersAfterGet(s)]
                   /\ Handoff(sent', AllGettersAfterGet)
              ELSE /\ battle_queue' = [s \in Seats |-> << >>]
                   /\ order_queue' = sent'
                   /\ UNCHANGED << putters, getters, outbox >>
    ELSE /\ battle_queue' = [s \in Seats |-> QueueAfterGet(s)]
         /\ putters' = [s \in Seats |-> PuttersAfterGet(s)]
         /\ Handoff(order_queue, AllGettersAfterGet)
         /\ End("raise")
         /\ UNCHANGED << sent, to_move >>

\* _stop_challenge_loop lines 820-849, resumed after `await asyncio.sleep(2)`
\* when an order queue was not empty: an order still there is fatal
CloseStop ==
  /\ pc \in {"close_stop", "close_sleep"}
  /\ IF pc = "close_stop" /\ ~Unfinished1
       THEN /\ pc' = AfterForcePc
            /\ UNCHANGED << battle_queue, putters, getters, order_queue, outbox,
                            sent, to_move, ret >>
       ELSE IF pc = "close_stop" /\ battle[2] = None
         THEN /\ End("raise")
              /\ UNCHANGED << battle_queue, putters, getters, order_queue, outbox,
                              sent, to_move >>
         ELSE IF ~OrdersEmpty
           THEN /\ IF pc = "close_stop"
                     THEN pc' = "close_sleep" /\ UNCHANGED ret
                     ELSE End("raise")
                /\ UNCHANGED << battle_queue, putters, getters, order_queue, outbox,
                                sent, to_move >>
           ELSE ForcePart
  /\ UNCHANGED << fixed, battle, agent_battle, waiting,
                  trying_again, challenge_task, nTasks, finishedUpTo, srvBattle,
                  srvFinished, turns, need, inbox, pending, got, op,
                  pre_to_move, drained, discarded, pre_task >>

\* lines 851-868: wait for the challenge task if asked to, clear the
\* references, drain the four queues.  The puts the drain unblocks complete
\* once the coroutine has ended.
CloseClear ==
  /\ pc \in {"close_clear", "close_wait"}
  /\ pc = "close_wait" => TaskDone(challenge_task)
  /\ challenge_task' = None
  /\ battle' = [s \in Seats |-> None]
  /\ agent_battle' = [s \in Seats |-> None]
  /\ discarded' = order_queue
  /\ battle_queue' = [s \in Seats |-> QueueAfterGet(s)]
  /\ putters' = [s \in Seats |-> PuttersAfterGet(s)]
  /\ LET woken == Requeue(getters, order_queue) IN
     Handoff(NoOrders,
             [s \in Seats |->
                IF putters[s] # << >> /\ Head(putters[s]).kind = "move"
                  THEN Append(woken[s], Head(putters[s]).b) ELSE woken[s]])
  /\ End("ok")
  /\ UNCHANGED << fixed, to_move, waiting, trying_again, nTasks, finishedUpTo,
                  srvBattle, srvFinished, turns, need, inbox, pending, got,
                  op, sent, pre_to_move, drained, pre_task >>

\* ------------------------------------------- the seats and the game server
Msg(k, b) == [kind |-> k, b |-> b]

BothInbox(k, b) == [s \in Seats |-> Append(inbox[s], Msg(k, b))]

\* battle_against: the server starts the battle of the next challenge task
\* once the previous battle is over (max_concurrent_battles = 1)
BattleStart ==
  /\ srvBattle < nTasks
  /\ srvBattle = 0 \/ srvFinished
  /\ srvBattle' = srvBattle + 1
  /\ turns < MaxTurns
  /\ srvFinished' = FALSE
  /\ turns' = turns + 1
  /\ need' = [s \in Seats |-> TRUE]
  /\ inbox' = BothInbox("request", srvBattle + 1)
  /\ UNCHANGED << pc, fixed, battle, agent_battle, to_move, battle_queue, order_queue,
                  putters, getters, waiting, trying_again, challenge_task, nTasks,
                  finishedUpTo, outbox, pending, got, histVars >>

\* _env_move line 165-166: attach the battle if none is attached or the
\* attached one is finished
AttachAfter(s, b) ==
  IF agent_battle[s] = None \/ Finished(s, agent_battle[s]) THEN b ELSE agent_battle[s]

\* battle_queue.async_put(item) of seat s: at once if there is room, else the
\* put blocks behind the earlier ones
CanPut(s) == ~Full(battle_queue[s]) /\ putters[s] = << >>

AsyncPut(s, item) ==
  /\ battle_queue' = [battle_queue EXCEPT ![s] = IF CanPut(s) THEN Append(@, item) ELSE @]
  /\ putters' = [putters EXCEPT ![s] = IF CanPut(s) THEN @ ELSE Append(@, item)]
  /\ Handoff(order_queue,
             [getters EXCEPT ![s] = IF CanPut(s) /\ item.kind = "move"
                                      THEN Append(@, item.b) ELSE @])

\* _EnvPlayer._env_move up to `await self.order_queue.async_get()`
EnvMove(s, b) ==
  /\ agent_battle' = [agent_battle EXCEPT ![s] = AttachAfter(s, b)]
  /\ IF AttachAfter(s, b) = b
       THEN AsyncPut(s, Item(b, "move"))
       ELSE UNCHANGED << battle_queue, putters, getters, order_queue, outbox >>

\* The seat handles its next server message: a request or a rejected choice
\* calls _env_move (the latter after setting _trying_again), a wait request
\* sets _waiting, a win marks the battle finished and runs
\* _battle_finished_callback.
SeatHandle(s) ==
  /\ LoopFree
  /\ inbox[s] # << >>
  /\ inbox' = [inbox EXCEPT ![s] = Tail(@)]
  /\ LET m == Head(inbox[s]) IN
     CASE m.kind = "request" ->
            /\ EnvMove(s, m.b)
            /\ UNCHANGED << waiting, trying_again, finishedUpTo >>
       [] m.kind = "error" ->
            /\ trying_again' = [trying_again EXCEPT ![s] = TRUE]
            /\ EnvMove(s, m.b)
            /\ UNCHANGED << waiting, finishedUpTo >>
       [] m.kind = "wait" ->
            /\ waiting' = [waiting EXCEPT ![s] = TRUE]
            /\ UNCHANGED << agent_battle, battle_queue, putters, getters,
                            order_queue, outbox, trying_again, finishedUpTo >>
       [] OTHER ->
            /\ finishedUpTo' = [finishedUpTo EXCEPT ![s] = m.b]
            /\ AsyncPut(s, Item(m.b, "end"))
            /\ UNCHANGED << agent_battle, waiting, trying_again >>
  /\ UNCHANGED << pc, fixed, battle, to_move, challenge_task, nTasks,
                  srvBattle, srvFinished, turns, need, pending, got,
                  histVars >>

\* what the server does with the choice o that seat s sent to battle b
Live(b) == b = srvBattle /\ ~srvFinished

EndBattle ==
  /\ srvFinished' = TRUE
  /\ need' = [x \in Seats |-> FALSE]
  /\ inbox' = BothInbox("win", srvBattle)
  /\ UNCHANGED turns

NextTurn(D) ==
  /\ turns < MaxTurns
  /\ turns' = turns + 1
  /\ need' = [x \in Seats |-> x \in D]
  /\ inbox' = [x \in Seats |->
                 Append(inbox[x], Msg(IF x \in D THEN "request" ELSE "wait", srvBattle))]
  /\ UNCHANGED srvFinished

Accept(s) ==
  IF \E x \in Seats : x # s /\ need[x]
    THEN /\ need' = [need EXCEPT ![s] = FALSE]
         /\ UNCHANGED << srvFinished, turns, inbox >>
    ELSE \/ EndBattle
         \/ \E D \in (SUBSET Seats) \ {{}} : NextTurn(D)

Reject(s) ==
  /\ turns < MaxTurns
  /\ turns' = turns + 1
  /\ inbox' = [inbox EXCEPT ![s] = Append(@, Msg("error", srvBattle))]
  /\ UNCHANGED << srvFinished, need >>

Serve(s, b, o) ==
  IF ~Live(b) \/ (o # Forfeit /\ ~need[s])
    THEN UNCHANGED << srvFinished, turns, need, inbox >>
    ELSE IF o = Forfeit
      THEN EndBattle
      ELSE \/ Accept(s)
           \/ o = Move /\ Reject(s)

\* the server processes the next choice a seat sent
ServerRecv(s) ==
  /\ outbox[s] # << >>
  /\ outbox' = [outbox EXCEPT ![s] = Tail(@)]
  /\ Serve(s, Head(outbox[s]).b, Head(outbox[s]).order)
  /\ UNCHANGED << pc, fixed, battle, agent_battle, to_move, battle_queue,
                  order_queue, putters, getters, waiting, trying_again,
                  challenge_task, nTasks, finishedUpTo, srvBattle, pending, got,
                  histVars >>

\* ------------------------------------------------------------------ Spec
Next ==
  \/ StepBegin
  \/ \E s \in Seats : StepOrder(s)
  \/ \E s \in Seats : StepRace(s)
  \/ StepEnd
  \/ ResetBegin
  \/ ResetPut
  \/ \E s \in Seats : ResetDrain(s)
  \/ ResetTask
  \/ ResetWait
  \/ \E s \in Seats : ResetNew(s)
  \/ CloseBegin
  \/ \E s \in Seats : CloseSync(s)
  \/ CloseStop
  \/ CloseClear
  \/ BattleStart
  \/ \E s \in Seats : SeatHandle(s)
  \/ \E s \in Seats : ServerRecv(s)

Spec == Init /\ [][Next]_vars

\* reset on a synchronizer whose players do not listen (start_listening=False)
\* and whose battles, flags and battle queues a driver has set, as the unit
\* test of reset and step sets them: battle 1 is finished or not, each
\* reference is empty or one of two battles, a battle queue is empty or holds
\* a snapshot of the second battle.
DrivenInit ==
  /\ pc = "idle"
  /\ strict = TRUE
  /\ battle \in [Seats -> {None, 1, 2}]
  /\ agent_battle \in [Seats -> {None, 1, 2}]
  /\ to_move \in [Seats -> BOOLEAN]
  /\ battle_queue \in [Seats -> {<< >>, << Item(2, "move") >>}]
  /\ finishedUpTo \in {[s \in Seats |-> 0], [s \in Seats |-> 1]}
  /\ order_queue = [s \in Seats |-> <<>>]
  /\ putters = [s \in Seats |-> <<>>]
  /\ getters = [s \in Seats |-> <<>>]
  /\ waiting = [s \in Seats |-> FALSE]
  /\ trying_again = [s \in Seats |-> FALSE]
  /\ challenge_task = None
  /\ nTasks = 0
  /\ srvBattle = 0
  /\ srvFinished = FALSE
  /\ turns = 0
  /\ need = [s \in Seats |-> FALSE]
  /\ inbox = [s \in Seats |-> <<>>]
  /\ outbox = [s \in Seats |-> <<>>]
  /\ pending = <<>>
  /\ got = [s \in Seats |-> None]
  /\ count = _INIT_RETRIES
  /\ op = "none"
  /\ ret = "none"
  /\ sent = NoOrders
  /\ pre_to_move = [s \in Seats |-> FALSE]
  /\ drained = [s \in Seats |-> NoItem]
  /\ discarded = NoOrders
  /\ pre_task = None
  /\ CodecIdle
  /\ HelperIdle
  /\ ClientIdle
  /\ RaceIdle
  /\ BaseIdle
  /\ ObsIdle
  /\ WrapIdle

DrivenNext ==
  \/ ResetBegin
  \/ ResetPut
  \/ \E s \in Seats : ResetDrain(s)
  \/ ResetTask
  \/ ResetRetry
  \/ \E s \in Seats : ResetNew(s)

ResetSpec == DrivenInit /\ [][DrivenNext]_vars

\* close on a synchronizer a driver has set, as the unit test of reset and step
\* leaves it after a step: an order may still lie on an order queue, since no
\* _env_move has asked for it yet, and a request may be on its way to a seat,
\* whose _env_move then takes the order during the sleep of the forced part.
StopInit ==
  /\ pc = "idle"
  /\ strict = TRUE
  /\ battle \in [Seats -> {None, 1}]
  /\ agent_battle \in [Seats -> {None, 1}]
  /\ to_move \in [Seats -> BOOLEAN]
  /\ battle_queue \in [Seats -> {<< >>, << Item(1, "move") >>}]
  /\ finishedUpTo \in {[s \in Seats |-> 0], [s \in Seats |-> 1]}
  /\ order_queue \in [Seats -> {<< >>, << Move >>}]
  /\ inbox \in [Seats -> {<< >>, << Msg("request", 1) >>}]
  /\ putters = [s \in Seats |-> <<>>]
  /\ getters = [s \in Seats |-> <<>>]
  /\ waiting = [s \in Seats |-> FALSE]
  /\ trying_again = [s \in Seats |-> FALSE]
  /\ challenge_task = None
  /\ nTasks = 0
  /\ srvBattle = 0
  /\ srvFinished = FALSE
  /\ turns = 0
  /\ need = [s \in Seats |-> FALSE]
  /\ outbox = [s \in Seats |-> <<>>]
  /\ pending = <<>>
  /\ got = [s \in Seats |-> None]
  /\ count = _INIT_RETRIES
  /\ op = "none"
  /\ ret = "none"
  /\ sent = NoOrders
  /\ pre_to_move = [s \in Seats |-> FALSE]
  /\ drained = [s \in Seats |-> NoItem]
  /\ discarded = NoOrders
  /\ pre_task = None
  /\ CodecIdle
  /\ HelperIdle
  /\ ClientIdle
  /\ RaceIdle
  /\ BaseIdle
  /\ ObsIdle
  /\ WrapIdle

StopNext ==
  \/ CloseBegin
  \/ \E s \in Seats : CloseSync(s)
  \/ CloseStop
  \/ CloseClear
  \/ \E s \in Seats : SeatHandle(s)
  \/ \E s \in Seats : ServerRecv(s)

StopSpec == StopInit /\ [][StopNext]_vars

\* The caller thread goes on while reset can take a step, and the event loop
\* runs the handlers of the messages received; nothing makes the server
\* start the match that was asked for.
LiveSpec ==
  /\ Spec
  /\ WF_vars(ResetWait)
  /\ \A s \in Seats : WF_vars(ResetNew(s))
  /\ \A s \in Seats : WF_vars(SeatHandle(s))

\* The caller thread goes on while step can take its next statement, the event
\* loop runs the handlers of the messages received, and the server processes
\* the choices sent to it.
StepLiveSpec ==
  /\ Spec
  /\ \A s \in Seats : WF_vars(StepOrder(s))
  /\ \A s \in Seats : WF_vars(StepRace(s))
  /\ WF_vars(StepEnd)
  /\ \A s \in Seats : WF_vars(SeatHandle(s))
  /\ \A s \in Seats : WF_vars(ServerRecv(s))

TypeOK ==
  /\ \A s \in Seats : Len(battle_queue[s]) <= QueueSize /\ Len(order_queue[s]) <= QueueSize
  /\ \A s \in Seats : putters[s] # << >> => battle_queue[s] # << >> \/ pc = "close_clear"


\* =============================================================== the codecs
\* ---------------------------------------------------------------- bounds
MaxBench == 2        \* team members besides the active ones
MaxMoves == 2        \* moves in the moveset of an active Pokemon

\* ------------------------------------------------------ program constants
num_switches == 6
num_moves    == 4
num_gimmicks == 5    \* gimmick tiers of the maps: none, mega, z-move, dynamax, tera

\* ------------------------------------------------------------------ orders
\* a SingleBattleOrder: order.order is a Pokemon ("switch") or a Move ("move")
create_order(kind, id, mega, z_move, dynamax, terastallize, move_target) ==
  [kind |-> kind, id |-> id, mega |-> mega, z_move |-> z_move,
   dynamax |-> dynamax, terastallize |-> terastallize, move_target |-> move_target]

ForfeitBattleOrder == create_order("forfeit", "", FALSE, FALSE, FALSE, FALSE, 0)
DefaultBattleOrder == create_order("default", "", FALSE, FALSE, FALSE, FALSE, 0)

SwitchOrder(p) == create_order("switch", p, FALSE, FALSE, FALSE, FALSE, 0)

\* the move order of gimmick tier g: at most the flag of that tier is set
MoveOrder(m, g, target) == create_order("move", m, g = 1, g = 2, g = 3, g = 4, target)

Raise(e) == [kind |-> "raise", err |-> e]
Action(a) == [kind |-> "action", a |-> a]
NotRun == [kind |-> "none"]

\* BattleOrder.message, as a tuple of the words of the command
GimmickWord(o) ==
  IF o.mega THEN "mega"
  ELSE IF o.z_move THEN "zmove"
  ELSE IF o.dynamax THEN "dynamax"
  ELSE IF o.terastallize THEN "terastallize"
  ELSE ""

Message(o) ==
  CASE o.kind = "forfeit" -> << "/forfeit" >>
    [] o.kind = "default" -> << "/choose default" >>
    [] o.kind = "switch"  -> << "/choose switch", o.id >>
    [] o.kind = "move"    -> << "/choose move", o.id, GimmickWord(o), o.move_target >>
    [] OTHER              -> << "raised" >>

\* ----------------------------------------------------------------- battles
Range(f) == {f[i] : i \in DOMAIN f}

Species  == << "p1", "p2", "p3", "p4", "p5", "p6" >>
MoveName == << "m1", "m2", "m3", "m4" >>
ForcedMoves == {"struggle", "recharge"}

Movesets == {SubSeq(MoveName, 1, k) : k \in 1..MaxMoves}

\* the available moves of a moveset: some of its moves, in its order, or the
\* one forced move
Avail(ms) ==
  {SelectSeq(ms, LAMBDA m : m \in A) : A \in SUBSET Range(ms)}
    \cup {<< f >> : f \in ForcedMoves}

Slot(active, ms, av, force) ==
  [active |-> active, moves |-> ms, available_moves |-> av, force_switch |-> force]

\* a slot of the side: empty, asked to switch (the request lists no move), or
\* asked to choose
SlotStates ==
  {Slot(FALSE, << >>, << >>, FALSE)}
    \cup {Slot(TRUE, ms, << >>, TRUE) : ms \in Movesets}
    \cup UNION {{Slot(TRUE, ms, av, FALSE) : av \in Avail(ms)} : ms \in Movesets}

AllCaps == {"mega", "z_move", "dynamax", "tera"}

\* the gimmicks a generation has
GenCaps(gen) ==
  CASE gen = 6 -> {"mega"}
    [] gen = 7 -> {"mega", "z_move"}
    [] gen = 8 -> {"mega", "z_move", "dynamax"}
    [] gen = 9 -> AllCaps
    [] OTHER   -> {}

Gens == 4..9

\* the sides with n active slots: the team, and the bench members a switch
\* may bring in (sw)
Side(n, k, j) ==
  [team |-> SubSeq(Species, 1, n + k), sw |-> {Species[i] : i \in (n + 1)..(n + j)}]

\* no bench, or a bench of which no member, one member or every member may be
\* switched in
Sides(n) ==
  {Side(n, 0, 0), Side(n, MaxBench, 0), Side(n, MaxBench, 1), Side(n, MaxBench, MaxBench)}

Battle(mode, team, slots, sw, gen, caps) ==
  [mode |-> mode, team |-> team,
   active |-> [i \in DOMAIN slots |-> slots[i].active],
   moves |-> [i \in DOMAIN slots |-> slots[i].moves],
   available_moves |-> [i \in DOMAIN slots |-> slots[i].available_moves],
   force_switch |-> [i \in DOMAIN slots |-> slots[i].force_switch],
   available_switches |-> sw, gen |-> gen, caps |-> caps]

SinglesBattles ==
  UNION {{Battle("singles", side.team, << s >>, side.sw, gen, caps) :
            side \in Sides(1), s \in SlotStates, caps \in SUBSET GenCaps(gen)} :
         gen \in Gens}

can_mega_evolve(b) == "mega" \in b.caps
can_z_move(b)      == "z_move" \in b.caps
can_dynamax(b)     == "dynamax" \in b.caps
can_tera(b)        == "tera" \in b.caps

\* ------------------------------------------------------------- SinglesEnv
MvsOfMoveset(av, ms) == ms

\* the list a move index resolves against
Mvs(av, ms) ==
  IF Len(av) = 1 /\ av[1] \in ForcedMoves THEN av ELSE ms

SinglesKey(gimmick, move) == num_switches + num_moves * gimmick + move

Entry(k, o) == [key |-> k, order |-> o]

get_action_order_map(b) ==
  {Entry(-1, ForfeitBattleOrder)}
    \cup {Entry(switch, SwitchOrder(b.team[switch + 1])) :
            switch \in {i \in 0..(num_switches - 1) : Len(b.team) > i}}
    \cup (IF b.active[1]
            THEN LET mvs == Mvs(b.available_moves[1], b.moves[1]) IN
                 UNION {{Entry(SinglesKey(gimmick, move),
                               MoveOrder(mvs[move + 1], gimmick, 0)) :
                           move \in {m \in 0..(num_moves - 1) : Len(mvs) > m}} :
                        gimmick \in 0..(num_gimmicks - 1)}
            ELSE {})

AnyOrderValid(order, b) == TRUE

ValidIgnoringGimmicks(order, b) ==
  IF order.kind = "forfeit" THEN TRUE
  ELSE IF order.kind = "default" THEN FALSE
  ELSE IF order.kind = "switch" THEN order.id \in b.available_switches
  ELSE /\ ~b.force_switch[1]
       /\ b.active[1]
       /\ order.id \in Range(b.available_moves[1])

is_valid_order(order, b) ==
  IF order.kind = "forfeit" THEN TRUE
  ELSE IF order.kind = "default" THEN FALSE
  ELSE IF order.kind = "switch" THEN order.id \in b.available_switches
  ELSE /\ ~b.force_switch[1]
       /\ b.active[1]
       /\ order.id \in Range(b.available_moves[1])
       /\ (~order.mega \/ can_mega_evolve(b))
       /\ (~order.z_move \/ can_z_move(b))
       /\ (~order.dynamax \/ can_dynamax(b))
       /\ (~order.terastallize \/ can_tera(b))

\* action_order_map[action]
Lookup(map, action) ==
  IF \E e \in map : e.key = action
    THEN (CHOOSE e \in map : e.key = action).order
    ELSE Raise("KeyError")

\* action_order_map.inv[order]
LookupInv(map, order) ==
  IF \E e \in map : e.order = order
    THEN Action(<< (CHOOSE e \in map : e.order = order).key >>)
    ELSE Raise("KeyError")

SinglesEnv_action_to_order(action, b) ==
  LET order == Lookup(get_action_order_map(b), action) IN
  IF order.kind = "raise" THEN order
  ELSE IF ~is_valid_order(order, b) THEN Raise("AssertionError")
  ELSE order

SinglesEnv_order_to_action(order, b) ==
  IF ~is_valid_order(order, b) THEN Raise("AssertionError")
  ELSE LookupInv(get_action_order_map(b), order)

\* Both conversions of SinglesEnv are declared with two parameters, (action,
\* battle) and (order, battle): a call that passes fake or strict, as the
\* interface of PokeEnv declares them, raises TypeError.  A caller passes a
\* flag only to set it off its default (fake = False, strict = True).
SinglesEnv_call_action_to_order(action, b, fake, st) ==
  IF fake \/ ~st THEN Raise("TypeError") ELSE SinglesEnv_action_to_order(action, b)

SinglesEnv_call_order_to_action(order, b, fake, st) ==
  IF fake \/ ~st THEN Raise("TypeError") ELSE SinglesEnv_order_to_action(order, b)

\* the inputs of the singles codec: every value of the largest action space,
\* with the sentinels below it and one value above it; the orders on the
\* team's members and on the moves a battle knows, with at most one gimmick
SinglesActions == -2..(num_switches + num_moves * num_gimmicks)

KnownMoves(b, pos) == Range(b.moves[pos]) \cup ForcedMoves

SinglesOrders(b) ==
  {ForfeitBattleOrder, DefaultBattleOrder}
    \cup {SwitchOrder(p) : p \in Range(b.team)}
    \cup {MoveOrder(m, g, 0) : m \in KnownMoves(b, 1), g \in 0..(num_gimmicks - 1)}

SinglesDecode ==
  /\ cmode = "singles" /\ cop = "none"
  /\ \E a \in SinglesActions :
       LET order == SinglesEnv_call_action_to_order(a, cbattle, cfake, strict) IN
       /\ caction' = << a >>
       /\ cres' = order
       /\ cback' = IF order.kind = "raise" THEN NotRun
                   ELSE SinglesEnv_call_order_to_action(order, cbattle, cfake, strict)
  /\ cop' = "decode"
  /\ corder' = NotRun
  /\ UNCHANGED << cmode, cbattle, cfake, cpos, syncVars, helperVars, clientVars, raceVars, baseVars, obsVars, wrapVars >>

SinglesEncode ==
  /\ cmode = "singles" /\ cop = "none"
  /\ \E o \in SinglesOrders(cbattle) :
       LET a == SinglesEnv_call_order_to_action(o, cbattle, cfake, strict) IN
       /\ corder' = o
       /\ cres' = a
       /\ cback' = IF a.kind = "raise" THEN NotRun
                   ELSE SinglesEnv_call_action_to_order(a.a[1], cbattle, cfake, strict)
  /\ cop' = "encode"
  /\ caction' = << >>
  /\ UNCHANGED << cmode, cbattle, cfake, cpos, syncVars, helperVars, clientVars, raceVars, baseVars, obsVars, wrapVars >>

\* ------------------------------------------------------------- DoublesEnv
num_targets == 5

\* None as a slot's order: the slot passes
PassOrder == create_order("pass", "", FALSE, FALSE, FALSE, FALSE, 0)

DoubleBattleOrder(first_order, second_order) ==
  [kind |-> "double", first_order |-> first_order, second_order |-> second_order]

\* the targets the server accepts for a move: a foe for the first move of a
\* moveset, no target for the others
Targets(m) == IF m = MoveName[1] THEN {1, 2} ELSE {0}

\* the gimmick tiers open to the side
Tiers(b) ==
  {0} \cup (IF can_mega_evolve(b) THEN {1} ELSE {})
      \cup (IF can_z_move(b) THEN {2} ELSE {})
      \cup (IF can_dynamax(b) THEN {3} ELSE {})
      \cup (IF can_tera(b) THEN {4} ELSE {})

\* DoubleBattle.valid_orders[pos]: a slot that is not asked to switch while
\* the other one is passes; otherwise the slot may switch to a Pokemon open to
\* a switch and, unless it must switch, use an available move on one of its
\* targets, with a gimmick open to the side; a slot with nothing to do passes,
\* and so may either slot when both must switch and one Pokemon is left
SwitchOrders(b) == {SwitchOrder(p) : p \in b.available_switches}

MoveOrders(b, pos) ==
  IF b.active[pos] /\ ~b.force_switch[pos]
    THEN UNION {{MoveOrder(m, g, tg) : tg \in Targets(m), g \in Tiers(b)} :
                m \in Range(b.available_moves[pos])}
    ELSE {}

valid_orders(b, pos) ==
  IF (\E i \in 1..2 : b.force_switch[i]) /\ ~b.force_switch[pos]
    THEN {PassOrder}
    ELSE LET orders == SwitchOrders(b) \cup MoveOrders(b, pos) IN
         IF orders = {} \/ (b.force_switch = << TRUE, TRUE >>
                             /\ Cardinality(b.available_switches) = 1)
           THEN orders \cup {PassOrder} ELSE orders

\* DoubleBattleOrder.join_orders on lists of at most one order: two orders
\* join unless both use the same gimmick or both have the same order field
\* (the same Pokemon to switch to, or two default orders); one order alone
\* makes a double order of its own; no order at all gives the default order
SameOrderField(o1, o2) ==
  \/ o1.kind = "switch" /\ o2.kind = "switch" /\ o1.id = o2.id
  \/ o1.kind = "default" /\ o2.kind = "default"

Joinable(o1, o2) ==
  /\ ~(o1.mega /\ o2.mega)
  /\ ~(o1.z_move /\ o2.z_move)
  /\ ~(o1.dynamax /\ o2.dynamax)
  /\ ~(o1.terastallize /\ o2.terastallize)
  /\ ~SameOrderField(o1, o2)

join_orders(first_orders, second_orders) ==
  IF first_orders # << >> /\ second_orders # << >>
    THEN IF Joinable(first_orders[1], second_orders[1])
           THEN << DoubleBattleOrder(first_orders[1], second_orders[1]) >>
           ELSE << >>
  ELSE IF first_orders # << >>
    THEN << DoubleBattleOrder(first_orders[1], PassOrder) >>
  ELSE IF second_orders # << >>
    THEN << DoubleBattleOrder(PassOrder, second_orders[1]) >>
  ELSE << DefaultBattleOrder >>

\* list[i] of Python: negative indices count from the end
PyIndex(list, i) ==
  IF 0 <= i /\ i < Len(list) THEN list[i + 1]
  ELSE IF i < 0 /\ -i <= Len(list) THEN list[Len(list) + i + 1]
  ELSE "IndexError"

\* list.index(x) of Python, from 0; -1 stands for its ValueError
IndexOf(list, x) ==
  IF \E i \in 1..Len(list) : list[i] = x
    THEN (CHOOSE i \in 1..Len(list) : list[i] = x /\ \A j \in 1..(i - 1) : list[j] # x) - 1
    ELSE -1

\* the three parts of a move action (lines 194-207)
MoveIndex(action)   == ((action - 7) % 20) \div 5
MoveTarget(action)  == ((action - 7) % 5) - 2
GimmickTier(action) == (action - 7) \div 20

EncodeMoveNoBase(index, target, gimmick) == 5 * index + target + 20 * gimmick

\* line 321, target being move_target + 2
EncodeMove(index, target, gimmick) == 1 + 6 + 5 * index + target + 20 * gimmick

\* lines 311-320
GimmickOf(order) ==
  IF order.mega THEN 1
  ELSE IF order.z_move THEN 2
  ELSE IF order.dynamax THEN 3
  ELSE IF order.terastallize THEN 4
  ELSE 0

\* `if not fake and order not in battle.valid_orders[pos]: raise ValueError`
CheckedOrder(order, b, fake, pos) ==
  IF ~fake /\ order \notin valid_orders(b, pos) THEN Raise("ValueError") ELSE order

action_to_order_individual(action, b, fake, pos) ==
  IF action = -2 THEN DefaultBattleOrder
  ELSE IF action = 0 THEN CheckedOrder(PassOrder, b, fake, pos)
  ELSE IF action < 7
    THEN LET p == PyIndex(b.team, action - 1) IN
         IF p = "IndexError" THEN Raise("IndexError")
         ELSE CheckedOrder(SwitchOrder(p), b, fake, pos)
  ELSE IF ~fake /\ b.force_switch[pos] THEN Raise("ValueError")
  ELSE IF ~b.active[pos] THEN Raise("ValueError")
  ELSE LET mvs == Mvs(b.available_moves[pos], b.moves[pos]) IN
       IF MoveIndex(action) \notin 0..(Len(mvs) - 1) THEN Raise("ValueError")
       ELSE CheckedOrder(MoveOrder(mvs[MoveIndex(action) + 1], GimmickTier(action),
                                   MoveTarget(action)),
                         b, fake, pos)

\* the action of a checked order, or the error of the check
CheckedAction(action, order, b, fake, pos) ==
  IF CheckedOrder(order, b, fake, pos).kind = "raise"
    THEN Raise("ValueError") ELSE Action(<< action >>)

order_to_action_individual(order, b, fake, pos) ==
  IF order.kind = "pass" THEN CheckedAction(0, order, b, fake, pos)
  ELSE IF order.kind = "default" THEN Action(<< -2 >>)
  ELSE IF order.kind = "switch"
    THEN IF IndexOf(b.team, order.id) = -1 THEN Raise("ValueError")
         ELSE CheckedAction(IndexOf(b.team, order.id) + 1, order, b, fake, pos)
  ELSE IF ~fake /\ b.force_switch[pos] THEN Raise("ValueError")
  ELSE IF ~b.active[pos] THEN Raise("ValueError")
  ELSE LET mvs == Mvs(b.available_moves[pos], b.moves[pos]) IN
       IF order.id \notin Range(mvs) THEN Raise("ValueError")
       ELSE CheckedAction(EncodeMove(IndexOf(mvs, order.id), order.move_target + 2,
                                     GimmickOf(order)),
                          order, b, fake, pos)

Unforgiving(e, st, default) == e

\* a ValueError of a conversion: re-raised if strict, else the default order
Lenient(e, st, default) ==
  IF e.err = "ValueError" /\ ~st THEN default ELSE e

\* the pre-check of both conversions: one Pokemon to switch to, both slots
\* asked to switch
OneSwitchForTwo(b, fake) ==
  /\ ~fake
  /\ Cardinality(b.available_switches) = 1
  /\ b.force_switch = << TRUE, TRUE >>

SlotList(order) == IF order = PassOrder THEN << >> ELSE << order >>

ForfeitInBoth(action) == action[1] = -1 /\ action[2] = -1

\* `if action[0] == -1 or action[1] == -1`
ForfeitInEither(action) == action[1] = -1 \/ action[2] = -1

DoublesEnv_action_to_order(action, b, fake, st) ==
  IF ForfeitInEither(action) THEN ForfeitBattleOrder
  ELSE IF /\ OneSwitchForTwo(b, fake)
          /\ 1 <= action[1] /\ action[1] <= 6
          /\ 1 <= action[2] /\ action[2] <= 6
    THEN Lenient(Raise("ValueError"), st, DefaultBattleOrder)
  ELSE LET order1 == action_to_order_individual(action[1], b, fake, 1)
           order2 == action_to_order_individual(action[2], b, fake, 2)
       IN
       IF order1.kind = "raise" THEN Lenient(order1, st, DefaultBattleOrder)
       ELSE IF order2.kind = "raise" THEN Lenient(order2, st, DefaultBattleOrder)
       ELSE LET joined_orders == join_orders(SlotList(order1), SlotList(order2)) IN
            IF ~fake /\ joined_orders = << >>
              THEN Lenient(Raise("ValueError"), st, DefaultBattleOrder)
            ELSE IF joined_orders = << >> THEN Raise("IndexError")
            ELSE joined_orders[1]

DoublesEnv_order_to_action(order, b, fake, st) ==
  IF order.kind = "default" THEN Action(<< -2, -2 >>)
  ELSE IF order.kind = "forfeit" THEN Action(<< -1, -1 >>)
  ELSE IF order.kind # "double" THEN Raise("AssertionError")
  ELSE IF /\ OneSwitchForTwo(b, fake)
          /\ order.first_order.kind = "switch"
          /\ order.second_order.kind = "switch"
    THEN Lenient(Raise("ValueError"), st, Action(<< -2, -2 >>))
  ELSE LET action1 == order_to_action_individual(order.first_order, b, fake, 1)
           action2 == order_to_action_individual(order.second_order, b, fake, 2)
       IN
       IF action1.kind = "raise" THEN Lenient(action1, st, Action(<< -2, -2 >>))
       ELSE IF action2.kind = "raise" THEN Lenient(action2, st, Action(<< -2, -2 >>))
       ELSE Action(<< action1.a[1], action2.a[1] >>)

\* ------------------------------------------------- the codec's battles
FullMoveset == SubSeq(MoveName, 1, MaxMoves)

\* the slot beside the one a per-slot conversion is applied to
PeerStates ==
  {Slot(TRUE, FullMoveset, << >>, TRUE), Slot(TRUE, FullMoveset, FullMoveset, FALSE)}

\* the slots of the battles whole double orders are converted in
PairStates ==
  PeerStates \cup {Slot(FALSE, << >>, << >>, FALSE),
                   Slot(TRUE, FullMoveset, Tail(FullMoveset), FALSE),
                   Slot(TRUE, FullMoveset, << "struggle" >>, FALSE)}

\* generation and capabilities of the doubles battles: none, mega evolution,
\* terastallization
DoublesGimmicks == {<< 5, {} >>, << 6, {"mega"} >>, << 9, {"tera"} >>}

SlotBattles ==
  {Battle("slot", side.team, << s, peer >>, side.sw, gc[1], gc[2]) :
     side \in {Side(2, 0, 0), Side(2, MaxBench, 1), Side(2, MaxBench, MaxBench)},
     s \in SlotStates, peer \in PeerStates, gc \in DoublesGimmicks}

DoublesBattles ==
  {Battle("doubles", side.team, << s1, s2 >>, side.sw, gc[1], gc[2]) :
     side \in Sides(2), s1 \in PairStates, s2 \in PairStates, gc \in DoublesGimmicks}

\* the inputs of the per-slot conversions: every value of the largest action
\* space, with the sentinels below it and one value above it; the orders on
\* the team's members and on the moves the battle knows, with every target
\* and at most one gimmick
SlotActions == -2..(1 + num_switches + num_moves * num_targets * num_gimmicks)

SlotOrders(b, pos) ==
  {PassOrder, DefaultBattleOrder}
    \cup {SwitchOrder(p) : p \in Range(b.team)}
    \cup {MoveOrder(m, g, tg) : m \in KnownMoves(b, pos),
                                g \in 0..(num_gimmicks - 1), tg \in -2..2}

\* the inputs of the conversions of whole actions and orders: the sentinels,
\* pass, a switch to the third and to the fourth team member, the first move
\* on its second target, plain and with mega evolution, the second move and
\* the fourth move
PairActions ==
  {-2, -1, 0, 3, 4, EncodeMove(0, 3, 0), EncodeMove(0, 3, 1), EncodeMove(1, 2, 0),
   EncodeMove(3, 2, 0)}

PairSlotOrders(b, pos) ==
  valid_orders(b, pos)
    \cup {PassOrder, DefaultBattleOrder, SwitchOrder(b.team[Len(b.team)])}

PairOrders(b) ==
  {ForfeitBattleOrder, DefaultBattleOrder}
    \cup {DoubleBattleOrder(o1, o2) :
            o1 \in PairSlotOrders(b, 1), o2 \in PairSlotOrders(b, 2)}

\* ------------------------------------------ the values of the showdown BaseEnv
\* the rqid values and the requests json.loads returns; wait: the request
\* has a "wait" key
Rqids == {1, 2}

Request(rqid, wait) == [kind |-> "request", rqid |-> rqid, wait |-> wait]

Requests == {PyNone} \cup {Request(r, w) : r \in Rqids, w \in BOOLEAN}

\* a battle, by the id of its first available move ("none": no move available)
BaseBattles ==
  {[kind |-> "battle", first |-> f] : f \in {"none", "recharge", "struggle", "tackle"}}

\* the actions passed to step and returned by get_action
StepActions == {PyInt(n) : n \in {0, 6, 13, 25}}

\* BaseEnv.get_action_str
get_action_str(b, action) ==
  IF action = PyNone THEN PyNone
  ELSE IF b.first = "recharge" THEN PyStr(<< "move", "recharge" >>)
  ELSE IF b.first = "struggle" THEN PyStr(<< "move", "struggle" >>)
  ELSE IF action.v < 6 THEN PyStr(<< "switch", action.v >>)
  ELSE IF action.v < 10 THEN PyStr(<< "move", action.v - 6 >>)
  ELSE IF action.v < 14 THEN PyStr(<< "move", action.v - 10, "mega" >>)
  ELSE IF action.v < 18 THEN PyStr(<< "move", action.v - 14, "zmove" >>)
  ELSE IF action.v < 22 THEN PyStr(<< "move", action.v - 18, "max" >>)
  ELSE PyStr(<< "move", action.v - 22, "tera" >>)

\* ---------------------------------------------------------------- CodecSpec
SlotDecode ==
  /\ cmode = "slot" /\ cop = "none"
  /\ \E pos \in 1..2, a \in SlotActions :
       LET order == action_to_order_individual(a, cbattle, cfake, pos) IN
       /\ cpos' = pos
       /\ caction' = << a >>
       /\ cres' = order
       /\ cback' = IF order.kind = "raise" THEN NotRun
                   ELSE order_to_action_individual(order, cbattle, cfake, pos)
  /\ cop' = "decode"
  /\ corder' = NotRun
  /\ UNCHANGED << cmode, cbattle, cfake, syncVars, helperVars, clientVars, raceVars, baseVars, obsVars, wrapVars >>

SlotEncode ==
  /\ cmode = "slot" /\ cop = "none"
  /\ \E pos \in 1..2 : \E o \in SlotOrders(cbattle, pos) :
       LET a == order_to_action_individual(o, cbattle, cfake, pos) IN
       /\ cpos' = pos
       /\ corder' = o
       /\ cres' = a
       /\ cback' = IF a.kind = "raise" THEN NotRun
                   ELSE action_to_order_individual(a.a[1], cbattle, cfake, pos)
  /\ cop' = "encode"
  /\ caction' = << >>
  /\ UNCHANGED << cmode, cbattle, cfake, syncVars, helperVars, clientVars, raceVars, baseVars, obsVars, wrapVars >>

DoublesDecode ==
  /\ cmode = "doubles" /\ cop = "none"
  /\ \E a1 \in PairActions, a2 \in PairActions :
       LET order == DoublesEnv_action_to_order(<< a1, a2 >>, cbattle, cfake, strict) IN
       /\ caction' = << a1, a2 >>
       /\ cres' = order
       /\ cback' = IF order.kind = "raise" THEN NotRun
                   ELSE DoublesEnv_order_to_action(order, cbattle, cfake, strict)
  /\ cop' = "decode"
  /\ corder' = NotRun
  /\ UNCHANGED << cmode, cbattle, cfake, cpos, syncVars, helperVars, clientVars, raceVars, baseVars, obsVars, wrapVars >>

DoublesEncode ==
  /\ cmode = "doubles" /\ cop = "none"
  /\ \E o \in PairOrders(cbattle) :
       LET a == DoublesEnv_order_to_action(o, cbattle, cfake, strict) IN
       /\ corder' = o
       /\ cres' = a
       /\ cback' = IF a.kind = "raise" THEN NotRun
                   ELSE DoublesEnv_action_to_order(a.a, cbattle, cfake, strict)
  /\ cop' = "encode"
  /\ caction' = << >>
  /\ UNCHANGED << cmode, cbattle, cfake, cpos, syncVars, helperVars, clientVars, raceVars, baseVars, obsVars, wrapVars >>

\* BaseEnv.get_action_str on every value of its Discrete(26) action space
BaseActions == 0..25

BaseEnvGetActionStr ==
  /\ cmode = "base" /\ cop = "none"
  /\ \E a \in BaseActions :
       /\ caction' = << a >>
       /\ cres' = get_action_str(cbattle, PyInt(a))
  /\ cop' = "decode"
  /\ corder' = NotRun
  /\ cback' = NotRun
  /\ UNCHANGED << cmode, cbattle, cfake, cpos, syncVars, helperVars, clientVars, raceVars, baseVars, obsVars, wrapVars >>

\* The synchronizer stays as constructed.  The singles conversions are not
\* called with fake, and a call that passes strict raises whatever the battle
\* is: for those calls the battles of one generation are drawn.  The per-slot
\* conversions take fake only, and get_action_str takes neither.
CodecInit ==
  /\ SyncInit
  /\ cmode \in {"singles", "slot", "doubles", "base"}
  /\ cfake \in BOOLEAN
  /\ cmode = "singles" => ~cfake
  /\ cmode = "slot" => strict
  /\ cmode = "base" => (strict /\ ~cfake)
  /\ cbattle \in (CASE cmode = "singles" -> SinglesBattles
                    [] cmode = "slot"    -> SlotBattles
                    [] cmode = "base"    -> BaseBattles
                    [] OTHER             -> DoublesBattles)
  /\ (cmode = "singles" /\ ~strict) => cbattle.gen = 4
  /\ cop = "none"
  /\ caction = << >>
  /\ cpos = 1
  /\ corder = NotRun
  /\ cres = NotRun
  /\ cback = NotRun
  /\ HelperIdle
  /\ ClientIdle
  /\ RaceIdle
  /\ BaseIdle
  /\ ObsIdle
  /\ WrapIdle

CodecNext ==
  \/ SinglesDecode
  \/ SinglesEncode
  \/ SlotDecode
  \/ SlotEncode
  \/ DoublesDecode
  \/ DoublesEncode
  \/ BaseEnvGetActionStr

CodecSpec == CodecInit /\ [][CodecNext]_vars

\* ================================================================ helpers
\* ------------------------------------------------------ bound of the helpers
MaxTeam == 2         \* Pokemon per side (team_size) of the battles the helpers get

\* A Pokemon as the helpers read it: current_hp_fraction in halves, fainted
\* and status (None: no status).  A fainted Pokemon has no HP left and the
\* status FNT.
Healthy == [hp |-> 2, fainted |-> FALSE, status |-> "none"]
Fainted == [hp |-> 0, fainted |-> TRUE, status |-> "fnt"]

\* healthy, at half of its HP, burned, fainted
Mons == {Healthy, [hp |-> 1, fainted |-> FALSE, status |-> "none"],
         [hp |-> 2, fainted |-> FALSE, status |-> "brn"], Fainted}

\* battle.team.values() / battle.opponent_team.values(): the Pokemon known so far
TeamsUpTo(n) == UNION {[1..k -> Mons] : k \in 0..n}

\* len([mon for mon in team.values() if mon.fainted])
NumFainted(team) == Cardinality({i \in 1..Len(team) : team[i].fainted})

\* the battle of the other seat of the same match
Mirror(b) == [b EXCEPT !.team = b.opponent_team, !.opponent_team = b.team,
                       !.won = IF b.won = "none" THEN "none"
                               ELSE IF b.won = "true" THEN "false" ELSE "true"]

EitherSideOut(remaining_mons, remaining_opponent_mons) ==
  (remaining_mons = 0) \/ (remaining_opponent_mons = 0)

\* (remaining_mons == 0) != (remaining_opponent_mons == 0)
OneSideOut(remaining_mons, remaining_opponent_mons) ==
  (remaining_mons = 0) # (remaining_opponent_mons = 0)

\* PokeEnv.calc_term_trunc: << terminated, truncated >>
calc_term_trunc(b) ==
  IF b.finished
    THEN LET size == b.team_size
             remaining_mons == size - NumFainted(b.team)
             remaining_opponent_mons == size - NumFainted(b.opponent_team)
         IN IF OneSideOut(remaining_mons, remaining_opponent_mons)
              THEN << TRUE, FALSE >>
              ELSE << FALSE, TRUE >>
    ELSE << FALSE, FALSE >>

\* the end of PokeEnv.step: calc_term_trunc on battle1 and on battle2, the
\* two seats' views of the match
PokeEnv_step_term_trunc(b) ==
  LET tt1 == calc_term_trunc(b)
      tt2 == calc_term_trunc(Mirror(b))
  IN [terminated |-> << tt1[1], tt2[1] >>, truncated |-> << tt1[2], tt2[2] >>]

\* the end of BaseEnv._async_step: terminated = self.agent_battle.finished,
\* and False is returned for truncated: << terminated, truncated >>
BaseEnv_step_term_trunc(b) == << b.finished, FALSE >>

\* the keyword arguments of reward_computing_helper: its defaults, and a
\* weighting of every factor
DefaultWeights ==
  [fainted_value |-> 0, hp_value |-> 0, number_of_pokemons |-> 6,
   starting_value |-> 0, status_value |-> 0, victory_value |-> 1]

FullWeights ==
  [fainted_value |-> 2, hp_value |-> 2, number_of_pokemons |-> 4,
   starting_value |-> 1, status_value |-> 1, victory_value |-> 5]

RewardWeights == {DefaultWeights, FullWeights}

RECURSIVE SumOver(_, _, _)
\* the loop over a team: what the Pokemon team[i..] add to the side's value
SumOver(team, i, w) ==
  IF i > Len(team) THEN 0
  ELSE LET mon == team[i] IN
       (mon.hp * w.hp_value) \div 2
         - (IF mon.fainted THEN w.fainted_value
            ELSE IF mon.status # "none" THEN w.status_value ELSE 0)
         + SumOver(team, i + 1, w)

\* current_value of reward_computing_helper (hp_value is even in
\* RewardWeights: the halves of HP weigh whole numbers)
CurrentValue(b, w) ==
  SumOver(b.team, 1, w)
    + (w.number_of_pokemons - Len(b.team)) * w.hp_value
    - SumOver(b.opponent_team, 1, w)
    - (w.number_of_pokemons - Len(b.opponent_team)) * w.hp_value
    + (IF b.won = "true" THEN w.victory_value
       ELSE IF b.won = "false" THEN 0 - w.victory_value ELSE 0)

Absent == [kind |-> "none"]
Stored(v) == [kind |-> "value", v |-> v]

BufferKept(current_value, before) == before

\* self._reward_buffer[battle] = current_value
BufferAfter(current_value, before) == Stored(current_value)

\* PokeEnv.reward_computing_helper on the battle, with the buffer's entry of
\* the battle: what it returns and the entry it leaves
reward_computing_helper(b, buffer, w) ==
  LET before == IF buffer = Absent THEN Stored(w.starting_value) ELSE buffer
      current_value == CurrentValue(b, w)
  IN [to_return |-> current_value - before.v,
      buffer |-> BufferAfter(current_value, before)]

\* the battles whose end is classified: finished or not, each side's Pokemon
\* known so far, at most team_size of them
TermBattles ==
  UNION {{[mode |-> "term", finished |-> f, team_size |-> n, team |-> t,
           opponent_team |-> o, won |-> "none"] :
            f \in BOOLEAN, t \in TeamsUpTo(n), o \in TeamsUpTo(n)} : n \in 1..MaxTeam}

\* the battles that are rewarded: the own team, the opponent's team of which
\* nothing or one Pokemon is revealed, and the outcome (finished, won)
RewardBattles ==
  {[mode |-> "reward", finished |-> fw[1], team_size |-> MaxTeam, team |-> t,
    opponent_team |-> o, won |-> fw[2]] :
     fw \in {<< FALSE, "none" >>, << TRUE, "none" >>, << TRUE, "true" >>,
             << TRUE, "false" >>},
     t \in TeamsUpTo(MaxTeam), o \in TeamsUpTo(1)}

\* what a battle may become by one event: a Pokemon's state changes, a
\* Pokemon of the opponent is revealed, the battle ends
BattleEvents(b) ==
  ({[b EXCEPT !.team[i] = m] : i \in 1..Len(b.team), m \in Mons}
     \cup {[b EXCEPT !.opponent_team[i] = m] : i \in 1..Len(b.opponent_team), m \in Mons}
     \cup (IF Len(b.opponent_team) = 0
             THEN {[b EXCEPT !.opponent_team = << Healthy >>]} ELSE {})
     \cup (IF b.finished THEN {}
           ELSE {[b EXCEPT !.finished = TRUE, !.won = x] : x \in {"none", "true", "false"}}))
    \ {b}

\* --------------------------------------------------------------- HelperSpec
CalcTermTrunc ==
  /\ hmode = "term" /\ hop = "none"
  /\ hop' = "calc_term_trunc"
  /\ hres' = [kind |-> "term_trunc", v |-> calc_term_trunc(hbattle)]
  /\ UNCHANGED << hmode, hbattle, reward_buffer, hweights, hsince, syncVars, codecVars, clientVars, raceVars, baseVars, obsVars, wrapVars >>

PokeEnvStepEnd ==
  /\ hmode = "term" /\ hop = "none"
  /\ hop' = "PokeEnv.step"
  /\ hres' = [kind |-> "step", v |-> PokeEnv_step_term_trunc(hbattle)]
  /\ UNCHANGED << hmode, hbattle, reward_buffer, hweights, hsince, syncVars, codecVars, clientVars, raceVars, baseVars, obsVars, wrapVars >>

BaseEnvStepEnd ==
  /\ hmode = "term" /\ hop = "none"
  /\ hop' = "BaseEnv.step"
  /\ hres' = [kind |-> "step", v |-> BaseEnv_step_term_trunc(hbattle)]
  /\ UNCHANGED << hmode, hbattle, reward_buffer, hweights, hsince, syncVars, codecVars, clientVars, raceVars, baseVars, obsVars, wrapVars >>

\* a call of reward_computing_helper; `again` records that the call before
\* had the same weights and that the battle did not change since
RewardCall ==
  /\ hmode = "reward"
  /\ \E w \in RewardWeights :
       LET r == reward_computing_helper(hbattle, reward_buffer, w) IN
       /\ hres' = [kind |-> "reward", v |-> r.to_return,
                   again |-> (hsince = "same" /\ hweights = w)]
       /\ reward_buffer' = r.buffer
       /\ hweights' = w
  /\ hop' = "reward"
  /\ hsince' = "same"
  /\ UNCHANGED << hmode, hbattle, syncVars, codecVars, clientVars, raceVars, baseVars, obsVars, wrapVars >>

\* the battle goes on between two calls
BattleChange ==
  /\ hmode = "reward"
  /\ hbattle' \in BattleEvents(hbattle)
  /\ hsince' = IF hsince = "none" THEN "none" ELSE "changed"
  /\ hop' = "none"
  /\ hres' = [kind |-> "none"]
  /\ UNCHANGED << hmode, reward_buffer, hweights, syncVars, codecVars, clientVars, raceVars, baseVars, obsVars, wrapVars >>

\* ------------------------------------------------------ the action spaces
\* a battle format is a string, modelled by its characters
Gen == << "g", "e", "n" >>

Formats ==
  {Gen \o << d >> \o rest : d \in {"1", "4", "5", "6", "7", "8", "9"},
                            rest \in {<< >>, << "r" >>, << "0" >>}}
    \cup {<< >>, Gen, << "G", "e", "n", "9" >>, << "x" >> \o Gen \o << "9" >>}

\* str.startswith(prefix)
startswith(str, prefix) ==
  Len(str) >= Len(prefix) /\ SubSeq(str, 1, Len(prefix)) = prefix

\* the num_gimmicks that both constructors derive from battle_format
format_gimmicks(battle_format) ==
  IF startswith(battle_format, Gen \o << "6" >>) THEN 1
  ELSE IF startswith(battle_format, Gen \o << "7" >>) THEN 2
  ELSE IF startswith(battle_format, Gen \o << "8" >>) THEN 3
  ELSE IF startswith(battle_format, Gen \o << "9" >>) THEN 4
  ELSE 0

SinglesEnv_act_size_no_base(battle_format) ==
  num_switches + num_moves * format_gimmicks(battle_format)

SinglesEnv_act_size(battle_format) ==
  num_switches + num_moves * (format_gimmicks(battle_format) + 1)

DoublesEnv_act_size(battle_format) ==
  1 + num_switches + num_moves * num_targets * (format_gimmicks(battle_format) + 1)

\* SinglesEnv.__init__: Discrete(act_size) for every agent
SinglesEnvInit ==
  /\ hmode = "space"
  /\ hop' = "SinglesEnv"
  /\ hres' = [kind |-> "Discrete", n |-> SinglesEnv_act_size(hbattle.battle_format)]
  /\ UNCHANGED << hmode, hbattle, reward_buffer, hweights, hsince, syncVars,
                  codecVars, clientVars, raceVars, baseVars, obsVars, wrapVars >>

\* DoublesEnv.__init__: MultiDiscrete([act_size, act_size]) for every agent
DoublesEnvInit ==
  /\ hmode = "space"
  /\ hop' = "DoublesEnv"
  /\ hres' = [kind |-> "MultiDiscrete",
              n |-> << DoublesEnv_act_size(hbattle.battle_format),
                       DoublesEnv_act_size(hbattle.battle_format) >>]
  /\ UNCHANGED << hmode, hbattle, reward_buffer, hweights, hsince, syncVars,
                  codecVars, clientVars, raceVars, baseVars, obsVars, wrapVars >>

HelperInit ==
  /\ SyncInit
  /\ CodecIdle
  /\ ClientIdle
  /\ RaceIdle
  /\ BaseIdle
  /\ ObsIdle
  /\ WrapIdle
  /\ hmode \in {"term", "reward", "space"}
  /\ hbattle \in (CASE hmode = "term" -> TermBattles
                    [] hmode = "reward" -> RewardBattles
                    [] OTHER -> {[mode |-> "space", battle_format |-> f] : f \in Formats})
  /\ hop = "none"
  /\ hres = [kind |-> "none"]
  /\ reward_buffer = Absent
  /\ hweights = [kind |-> "none"]
  /\ hsince = "none"

HelperNext ==
  \/ BaseEnvStepEnd
  \/ CalcTermTrunc
  \/ PokeEnvStepEnd
  \/ RewardCall
  \/ BattleChange
  \/ SinglesEnvInit
  \/ DoublesEnvInit

HelperSpec == HelperInit /\ [][HelperNext]_vars

\* ============================================================== the client
\* ------------------------------------------------------ bounds of the client
Deadline == 2     \* the timeout a caller passes, in ticks of the clock
MaxWait  == 5     \* ticks over which a call of find_message is followed

\* ---------------------------------------------------------------- messages
\* A message is a string.  Its characters are modelled as symbols: the two
\* separators, and words that hold neither of them.
Pipe    == "|"
NewLine == "NL"

Username == "user"
Room     == "battle-1"

\* the words the classifier looks for
Bang(u)   == "!" \o u      \* f"!{self.username}"
Space(u)  == " " \o u      \* f" {self.username}"
Spam      == "Due to spam from your internet provider, you can't challenge others right now."
Wants     == "wants to battle!"
Cancelled == "cancelled the challenge."

\* str.split(sep): the pieces between the separators; a string without
\* separator, the empty one too, is one piece
RECURSIVE Split(_, _)
Split(str, sep) ==
  IF \A i \in 1..Len(str) : str[i] # sep
    THEN << str >>
    ELSE LET k == CHOOSE i \in 1..Len(str) :
                    str[i] = sep /\ \A j \in 1..(i - 1) : str[j] # sep
         IN  << SubSeq(str, 1, k - 1) >> \o Split(SubSeq(str, k + 1, Len(str)), sep)

\* [m.split("|") for m in message.split("\n")]
split_messages(msg) ==
  LET lines == Split(msg, NewLine) IN
  [l \in 1..Len(lines) |-> Split(lines[l], Pipe)]

\* the string of one word, and `word in token`
Word(w) == << w >>
Contains(token, w) == \E i \in 1..Len(token) : token[i] = w

\* split_messages[l][i] with Python's indices, and whether it exists
At(sm, l, i)  == sm[l + 1][i + 1]
Has(sm, l, i) == Len(sm) > l /\ Len(sm[l + 1]) > i

\* ------------------------------------------------------------ find_message
Waiting      == [status |-> "waiting", value |-> << >>]
Return(sm)   == [status |-> "return", value |-> sm]
Raises(e, v) == [status |-> e, value |-> v]
IndexError   == Raises("IndexError", << >>)

PopupKindToken(sm) == At(sm, 0, 1)

\* split_messages[0][2]
PopupTextToken(sm) == At(sm, 0, 2)

Popup(sm) ==
  IF Has(sm, 0, 2) THEN Raises("PopupError", PopupTextToken(sm)) ELSE IndexError

LoginBranch(sm) ==
  IF ~Has(sm, 0, 1) THEN IndexError
  ELSE IF At(sm, 0, 1) = Word("challstr") THEN Return(sm)
  ELSE Waiting

GamesBranch(sm) ==
  IF ~Has(sm, 0, 1) THEN IndexError
  ELSE IF At(sm, 0, 1) = Word("popup") THEN Popup(sm)
  ELSE IF At(sm, 0, 1) = Word("updatesearch") THEN Return(sm)
  ELSE Waiting

ChallengeBranch(sm) ==
  IF Has(sm, 0, 1) /\ At(sm, 0, 1) = Word("popup") THEN Popup(sm)
  ELSE IF Has(sm, 0, 1) /\ At(sm, 0, 1) = Word("pm")
    THEN IF ~Has(sm, 0, 2) THEN IndexError
         ELSE IF At(sm, 0, 2) = Word(Bang(Username))
           THEN IF ~Has(sm, 0, 4) THEN IndexError
                ELSE IF Contains(At(sm, 0, 4), Spam)
                  THEN Raises("PopupError", At(sm, 0, 4))
                  ELSE Waiting
         ELSE IF At(sm, 0, 2) = Word(Space(Username))
           THEN IF ~Has(sm, 0, 4) THEN IndexError
                ELSE IF Contains(At(sm, 0, 4), Wants) THEN Return(sm)
                ELSE Waiting
         ELSE Waiting
  ELSE Waiting

CancelBranch(sm) ==
  IF ~Has(sm, 0, 1) THEN IndexError
  ELSE IF At(sm, 0, 1) = Word("popup") THEN Popup(sm)
  ELSE IF At(sm, 0, 1) = Word("pm")
    THEN IF ~Has(sm, 0, 2) THEN IndexError
         ELSE IF At(sm, 0, 2) = Word(Space(Username))
           THEN IF ~Has(sm, 0, 4) THEN IndexError
                ELSE IF Contains(At(sm, 0, 4), Cancelled) THEN Return(sm)
                ELSE Waiting
         ELSE Waiting
  ELSE Waiting

AcceptBranch(sm) ==
  IF ~Has(sm, 0, 1) THEN IndexError
  ELSE IF At(sm, 0, 1) = Word("pm")
    THEN IF ~Has(sm, 0, 3) THEN IndexError
         ELSE IF At(sm, 0, 3) = Word(Space(Username))
           THEN IF ~Has(sm, 0, 4) THEN IndexError
                ELSE IF Contains(At(sm, 0, 4), Wants) THEN Return(sm)
                ELSE Waiting
         ELSE Waiting
  ELSE Waiting

ObserveBranch(sm) ==
  LET is_request  == /\ Len(sm) = 2
                     /\ Len(sm[2]) = 3
                     /\ At(sm, 1, 1) = Word("request")
                     /\ At(sm, 1, 2) # << >>
      is_protocol == \E l \in 1..Len(sm) : sm[l] = << << >>, << >> >>
  IN  IF is_request \/ is_protocol THEN Return(sm) ELSE Waiting

LeaveBranch(sm, rm) ==
  IF rm # NoRoom /\ Contains(At(sm, 0, 0), rm)
    THEN IF Len(sm) < 2 THEN IndexError
         ELSE IF Len(sm[2]) > 1 /\ At(sm, 1, 1) = Word("deinit") THEN Return(sm)
         ELSE Waiting
    ELSE Waiting

MessageType == {"LOGIN", "GAMES", "CHALLENGE", "CANCEL", "ACCEPT", "OBSERVE", "LEAVE"}

\* one turn of the loop of find_message on the message received: it returns,
\* raises, or goes on waiting
Classify(mt, sm, rm) ==
  CASE mt = "LOGIN"     -> LoginBranch(sm)
    [] mt = "GAMES"     -> GamesBranch(sm)
    [] mt = "CHALLENGE" -> ChallengeBranch(sm)
    [] mt = "CANCEL"    -> CancelBranch(sm)
    [] mt = "ACCEPT"    -> AcceptBranch(sm)
    [] mt = "OBSERVE"   -> ObserveBranch(sm)
    [] mt = "LEAVE"     -> LeaveBranch(sm, rm)

\* ---------------------------------------------------------------- the wire
Opponent == " opp"

Pm(from, to, text) == << Pipe, "pm", Pipe, from, Pipe, to, Pipe, text >>

\* what the server may send: the messages of the protocol, and traffic of
\* other shapes (chat, other rooms, truncated lines)
Wire ==
  { << Pipe, "challstr", Pipe, "4", Pipe, "abc" >>,
    << Pipe, "updatesearch", Pipe, "{games}" >>,
    << Pipe, "popup", Pipe, "Due to high load" >>,
    << Pipe, "popup", Pipe, "You challenged", Pipe, Pipe, "too soon" >>,
    Pm(Bang(Username), "~", Spam),
    Pm(Space(Username), Opponent, Wants),
    Pm(Opponent, Space(Username), Wants),
    Pm(Space(Username), Opponent, Cancelled),
    Pm(Space(Username), Opponent, "hello"),
    << Pipe, "pm", Pipe, Space(Username), Pipe, Opponent >>,
    << Pipe, "pm", Pipe, Bang(Username) >>,
    << "hello" >>,
    << >>,
    << ">", Room, NewLine, Pipe, "request", Pipe, "{json}" >>,
    << ">", Room, NewLine, Pipe, "move", Pipe, "p1a", NewLine, Pipe >>,
    << ">", Room, NewLine, Pipe, "deinit" >>,
    << ">", Room >>,
    << ">", "lobby", NewLine, Pipe, "c", Pipe, "hi" >> }

\* ---------------------------------------------------------------- actions
\* find_message(message_type, timeout) is called: receive_message raises
\* ConnectionError without a websocket, else it awaits a message
FindMessage(mt, t) ==
  /\ found.status # "waiting"
  /\ message_type' = mt
  /\ timeout' = t
  /\ message' = NoMessage
  /\ found' = IF websocket THEN Waiting ELSE Raises("ConnectionError", << >>)
  /\ elapsed' = 0
  /\ waited' = 0
  /\ UNCHANGED << websocket, room, syncVars, codecVars, helperVars, raceVars, baseVars, obsVars, wrapVars >>

\* result.result(timeout) has not given up
InTime == timeout = None \/ waited < timeout

\* a call of receive_message starts the clock of its timeout anew
WaitedAfterReceive == 0

\* receive_message returns the message msg, and find_message classifies it
Receive(msg) ==
  /\ found.status = "waiting"
  /\ InTime
  /\ message' = msg
  /\ found' = Classify(message_type, split_messages(msg), room)
  /\ waited' = WaitedAfterReceive
  /\ UNCHANGED << websocket, room, message_type, timeout, elapsed, syncVars,
                  codecVars, helperVars, raceVars, baseVars, obsVars, wrapVars >>

\* time passes while receive_message waits
Tick ==
  /\ found.status = "waiting"
  /\ InTime
  /\ elapsed < MaxWait
  /\ elapsed' = elapsed + 1
  /\ waited' = waited + 1
  /\ UNCHANGED << websocket, room, message_type, timeout, message, found,
                  syncVars, codecVars, helperVars, raceVars, baseVars, obsVars, wrapVars >>

\* result.result(timeout) raises TimeoutError, which find_message lets through
TimeoutExpires ==
  /\ found.status = "waiting"
  /\ ~InTime
  /\ found' = Raises("TimeoutError", << >>)
  /\ UNCHANGED << websocket, room, message_type, timeout, message, elapsed,
                  waited, syncVars, codecVars, helperVars, raceVars, baseVars, obsVars, wrapVars >>

ClientInit ==
  /\ SyncInit
  /\ CodecIdle
  /\ HelperIdle
  /\ RaceIdle
  /\ BaseIdle
  /\ ObsIdle
  /\ WrapIdle
  /\ websocket \in BOOLEAN
  /\ room \in {NoRoom, Room}
  /\ message_type = "none"
  /\ timeout = None
  /\ message = NoMessage
  /\ found = [status |-> "idle", value |-> << >>]
  /\ elapsed = 0
  /\ waited = 0

ClientNext ==
  \/ \E mt \in MessageType, t \in {None, Deadline} : FindMessage(mt, t)
  \/ \E msg \in Wire : Receive(msg)
  \/ Tick
  \/ TimeoutExpires

ClientSpec == ClientInit /\ [][ClientNext]_vars

\* ================================================================ race_get
\* One _AsyncQueue at the grain of the event loop: the tasks that race_get
\* creates, the getters registered on the asyncio queue, a companion event,
\* and the caller thread that calls race_get and get in turn.
MaxPuts == 3      \* items put on the queue, in all

raceRest == << syncVars, codecVars, helperVars, clientVars, baseVars, obsVars, wrapVars >>

Tasks == {"get_task", "wait_task", "get"}

NoTask == [st |-> "none", item |-> None]
TaskWaiting == [st |-> "waiting", item |-> None]
TaskWoken == [st |-> "woken", item |-> None]
TaskDone_(i) == [st |-> "done", item |-> i]
TaskCancelled == [st |-> "cancelled", item |-> None]

\* asyncio.Queue.get of task t, from its start or from its wake-up: the first
\* item if there is one, else the task registers a getter and waits
QueueGet(t) ==
  IF rq_items # << >>
    THEN /\ task' = [task EXCEPT ![t] = TaskDone_(Head(rq_items))]
         /\ rq_items' = Tail(rq_items)
         /\ UNCHANGED rq_getters
    ELSE /\ task' = [task EXCEPT ![t] = TaskWaiting]
         /\ rq_getters' = Append(rq_getters, t)
         /\ UNCHANGED rq_items

\* the tasks after the wake-up of the oldest getter, if any
WakeNext(tk, gt) == IF gt = << >> THEN tk ELSE [tk EXCEPT ![Head(gt)] = TaskWoken]
GettersAfterWake(gt) == IF gt = << >> THEN gt ELSE Tail(gt)

Without(gt, t) == SelectSeq(gt, LAMBDA x : x # t)

\* the loop of line 67 left out: the tasks stay as they are
KeepPending(tk, gt, items) == [task |-> tk, getters |-> gt]

\* `for p in pending: p.cancel()`: a waiting get_task loses its getter; one
\* that a put has woken is cancelled before it takes the item, and hands the
\* wake-up on to the next getter
CancelPending(tk, gt, items) ==
  LET w == IF tk["wait_task"].st \in {"waiting", "woken"}
             THEN [tk EXCEPT !["wait_task"] = TaskCancelled] ELSE tk
  IN  CASE tk["get_task"].st = "waiting" ->
             [task |-> [w EXCEPT !["get_task"] = TaskCancelled],
              getters |-> Without(gt, "get_task")]
        [] tk["get_task"].st = "woken" ->
             [task |-> IF items # << >>
                         THEN WakeNext([w EXCEPT !["get_task"] = TaskCancelled], gt)
                         ELSE [w EXCEPT !["get_task"] = TaskCancelled],
              getters |-> IF items # << >> THEN GettersAfterWake(gt) ELSE gt]
        [] OTHER -> [task |-> w, getters |-> gt]

\* `return get_task.result()` if get_task is done, else None
RaceGetResult(tk) ==
  IF tk["get_task"].st = "done" THEN tk["get_task"].item ELSE None

\* the caller thread is in neither call
CallerFree == raced.status # "racing" /\ task["get"].st \notin {"waiting", "woken"}

\* race_get(event) is called: get_task and the wait task are created and run
\* up to their first suspension
RaceGetCall ==
  /\ CallerFree
  /\ raced' = [status |-> "racing", value |-> None]
  /\ IF rq_items # << >>
       THEN /\ task' = [task EXCEPT !["get_task"] = TaskDone_(Head(rq_items)),
                                    !["wait_task"] = IF event THEN TaskDone_(None)
                                                              ELSE TaskWaiting,
                                    !["get"] = NoTask]
            /\ rq_items' = Tail(rq_items)
            /\ UNCHANGED rq_getters
       ELSE /\ task' = [task EXCEPT !["get_task"] = TaskWaiting,
                                    !["wait_task"] = IF event THEN TaskDone_(None)
                                                              ELSE TaskWaiting,
                                    !["get"] = NoTask]
            /\ rq_getters' = Append(rq_getters, "get_task")
            /\ UNCHANGED rq_items
  /\ UNCHANGED << event, nput, received, raceRest >>

\* asyncio.wait has returned (a task is done): the pending tasks are
\* cancelled and race_get returns
RaceGetReturn ==
  /\ raced.status = "racing"
  /\ task["get_task"].st = "done" \/ task["wait_task"].st = "done"
  /\ LET c == CancelPending(task, rq_getters, rq_items) IN
     /\ task' = c.task
     /\ rq_getters' = c.getters
  /\ raced' = [status |-> "returned", value |-> RaceGetResult(task)]
  /\ received' = IF RaceGetResult(task) # None
                   THEN Append(received, RaceGetResult(task)) ELSE received
  /\ UNCHANGED << rq_items, event, nput, raceRest >>

\* the event loop runs a woken get_task
RunGetTask ==
  /\ task["get_task"].st = "woken"
  /\ QueueGet("get_task")
  /\ UNCHANGED << event, raced, nput, received, raceRest >>

\* the event loop runs the woken wait task
RunWaitTask ==
  /\ task["wait_task"].st = "woken"
  /\ task' = [task EXCEPT !["wait_task"] = TaskDone_(None)]
  /\ UNCHANGED << rq_items, rq_getters, event, raced, nput, received, raceRest >>

\* the companion event is set by the player
EventSet ==
  /\ ~event
  /\ event' = TRUE
  /\ task' = IF task["wait_task"].st = "waiting"
               THEN [task EXCEPT !["wait_task"] = TaskWoken] ELSE task
  /\ UNCHANGED << rq_items, rq_getters, raced, nput, received, raceRest >>

\* the caller clears the event between two calls
EventClear ==
  /\ event
  /\ CallerFree
  /\ event' = FALSE
  /\ UNCHANGED << rq_items, rq_getters, task, raced, nput, received, raceRest >>

\* a coroutine puts the next item: the oldest getter is woken
PutItem ==
  /\ nput < MaxPuts
  /\ Len(rq_items) < QueueSize
  /\ nput' = nput + 1
  /\ rq_items' = Append(rq_items, nput + 1)
  /\ task' = WakeNext(task, rq_getters)
  /\ rq_getters' = GettersAfterWake(rq_getters)
  /\ UNCHANGED << event, raced, received, raceRest >>

\* get() is called, or its task is woken by a put; its result goes to the caller
GetCall ==
  /\ CallerFree \/ task["get"].st = "woken"
  /\ QueueGet("get")
  /\ received' = IF rq_items # << >> THEN Append(received, Head(rq_items)) ELSE received
  /\ UNCHANGED << event, raced, nput, raceRest >>

RaceInit ==
  /\ SyncInit
  /\ CodecIdle
  /\ HelperIdle
  /\ ClientIdle
  /\ BaseIdle
  /\ ObsIdle
  /\ WrapIdle
  /\ rq_items = << >>
  /\ rq_getters = << >>
  /\ task = [t \in Tasks |-> NoTask]
  /\ event \in BOOLEAN
  /\ raced = [status |-> "idle", value |-> None]
  /\ nput = 0
  /\ received = << >>

RaceNext ==
  \/ RaceGetCall
  \/ RaceGetReturn
  \/ RunGetTask
  \/ RunWaitTask
  \/ EventSet
  \/ EventClear
  \/ PutItem
  \/ GetCall

RaceSpec == RaceInit /\ [][RaceNext]_vars

\* ============================================================ BaseEnv.step
\* The showdown BaseEnv: two BasePlayer connections, the agent's and the
\* env player's, driven by _reset_async and _async_step. A step is followed
\* across its four awaits: two choose calls, then two observe calls.
StepActionIgnoringWait(request, action) ==
  IF request = PyNone THEN PyNone ELSE action

\* the action _async_step keeps for a seat
StepAction(request, action) ==
  IF request = PyNone \/ request.wait THEN PyNone ELSE action

\* the rqid _async_step passes to choose
StepRqid(request) ==
  IF request = PyNone THEN PyNone ELSE PyInt(request.rqid)

Chose(who, action, rqid) ==
  [who |-> who, what |-> "choose", action |-> action, rqid |-> rqid]

Observed(who) == [who |-> who, what |-> "observe"]

\* BasePlayer.choose: what it sends
choose(who, action, rqid) ==
  IF action # PyNone /\ rqid # PyNone THEN << Chose(who, action, rqid) >> ELSE << >>

\* _reset_async up to its first observe: the challenge is issued and
\* accepted and both players join the room
AsyncResetBegin ==
  /\ bpc = "idle"
  /\ bpc' = "reset_observe_agent"
  /\ transcript' = << >>
  /\ bret' = "none"
  /\ UNCHANGED << base_agent_battle, agent_request, env_player_battle,
                  env_player_request, syncVars, codecVars, helperVars,
                  clientVars, raceVars, obsVars, wrapVars >>

\* _async_step up to the end of the agent's choose: the attributes are
\* missing before the first reset, and a battle that is None raises LookupError
AsyncStepChooseAgent ==
  /\ bpc = "idle"
  /\ \E a \in StepActions :
       IF base_agent_battle = Unassigned
         THEN /\ bret' = "AttributeError"
              /\ transcript' = << >>
              /\ bpc' = "idle"
       ELSE IF base_agent_battle = PyNone \/ env_player_battle = PyNone
         THEN /\ bret' = "LookupError"
              /\ transcript' = << >>
              /\ bpc' = "idle"
       ELSE /\ bret' = "none"
            /\ transcript' =
                 choose("agent",
                        get_action_str(base_agent_battle, StepAction(agent_request, a)),
                        StepRqid(agent_request))
            /\ bpc' = "step_choose_env_player"
  /\ UNCHANGED << base_agent_battle, agent_request, env_player_battle,
                  env_player_request, syncVars, codecVars, helperVars,
                  clientVars, raceVars, obsVars, wrapVars >>

\* _async_step: the env player's action, asked of get_action unless there is
\* no request or a "wait" request, and its choose
AsyncStepChooseEnvPlayer ==
  /\ bpc = "step_choose_env_player"
  /\ \E a \in StepActions \cup {PyNone} :
       transcript' =
         transcript \o
           choose("env_player",
                  get_action_str(env_player_battle, StepAction(env_player_request, a)),
                  StepRqid(env_player_request))
  /\ bpc' = "step_observe_agent"
  /\ UNCHANGED << base_agent_battle, agent_request, env_player_battle,
                  env_player_request, bret, syncVars, codecVars, helperVars,
                  clientVars, raceVars, obsVars, wrapVars >>

\* self.agent_battle, self.agent_request = await self.agent.observe(...)
ObserveAgent ==
  /\ bpc \in {"reset_observe_agent", "step_observe_agent"}
  /\ base_agent_battle' \in BaseBattles
  /\ agent_request' \in Requests
  /\ transcript' = Append(transcript, Observed("agent"))
  /\ bpc' = IF bpc = "reset_observe_agent" THEN "reset_observe_env_player"
                                           ELSE "step_observe_env_player"
  /\ UNCHANGED << env_player_battle, env_player_request, bret, syncVars,
                  codecVars, helperVars, clientVars, raceVars, obsVars, wrapVars >>

\* self.env_player_battle, self.env_player_request = await
\* self.env_player.observe(...), after which the operation returns
ObserveEnvPlayer ==
  /\ bpc \in {"reset_observe_env_player", "step_observe_env_player"}
  /\ env_player_battle' \in BaseBattles
  /\ env_player_request' \in Requests
  /\ transcript' = Append(transcript, Observed("env_player"))
  /\ bpc' = "idle"
  /\ bret' = "returned"
  /\ UNCHANGED << base_agent_battle, agent_request, syncVars, codecVars,
                  helperVars, clientVars, raceVars, obsVars, wrapVars >>

BaseInit ==
  /\ SyncInit
  /\ CodecIdle
  /\ HelperIdle
  /\ ClientIdle
  /\ RaceIdle
  /\ BaseIdle
  /\ ObsIdle
  /\ WrapIdle

BaseNext ==
  \/ AsyncResetBegin
  \/ AsyncStepChooseAgent
  \/ AsyncStepChooseEnvPlayer
  \/ ObserveAgent
  \/ ObserveEnvPlayer

BaseSpec == BaseInit /\ [][BaseNext]_vars

\* ================================================================= claims
InStepWait == op = "step" /\ pc \in {"race1", "race2", "step_end"}

\* C1: once step has passed its enqueue phase it has put exactly one order on
\* the order queue of each seat whose to_move flag was set when it began, and
\* cleared that flag; it has put nothing for a seat that was not to move.
C1_StepEnqueuesPerFlag ==
  InStepWait =>
    \A s \in Seats :
      /\ Len(sent[s]) = (IF pre_to_move[s] THEN 1 ELSE 0)
      /\ ~to_move[s]

C1_Witness ==
  /\ InStepWait
  /\ pre_to_move[1] /\ ~pre_to_move[2]
  /\ Len(sent[1]) = 1 /\ sent[2] = << >>

\* reset took its forfeit path with exactly one seat at a decision point, and
\* is past its puts: from its first get on, so before it launches the challenge
\* task of the new battle
ResetForfeitedOne ==
  /\ op = "reset"
  /\ drained[1] # NoItem
  /\ pre_to_move[1] # pre_to_move[2]

ResetReturns == op = "reset" /\ pc = "reset_new2" /\ pc' = "idle"

\* C2 (as amended): when reset is called while the previous battle is
\* unfinished and exactly one seat is at a decision point, a forfeit order is
\* enqueued to that seat and no order is enqueued to the other seat before the
\* new battle is started, and both seats' order queues are empty when reset
\* returns.
C2_ResetForfeitsOneSeat ==
  [][ResetForfeitedOne =>
       /\ \A s \in Seats :
            sent[s] = IF pre_to_move[s] THEN << Forfeit >> ELSE << >>
       /\ ResetReturns => \A s \in Seats : order_queue'[s] = << >>]_vars

C2_Witness ==
  /\ ResetForfeitedOne
  /\ pc = "idle" /\ ret = "ok"
  /\ \E s \in Seats : sent[s] = << Forfeit >> /\ sent[Other(s)] = << >>

\* C2 (as stated): ... a forfeit order is enqueued to that seat and a default
\* order to the other seat before the new battle is started, and both seats'
\* queues are empty immediately after reset returns.
C2_Original ==
  [][ResetForfeitedOne =>
       /\ \A s \in Seats :
            sent[s] = IF pre_to_move[s] THEN << Forfeit >> ELSE << Default >>
       /\ ResetReturns =>
            \A s \in Seats : order_queue'[s] = << >> /\ battle_queue'[s] = << >>]_vars

\* C3: when reset is called while the previous battle is unfinished and both
\* seats are at a decision point, seat 1 is sent the forfeit order and seat 2
\* the default order, both to_move flags are cleared, and the item reset took
\* from each seat's battle queue before it starts the new match is the final
\* snapshot of the old battle.
C3_ResetForfeitsBoth ==
  (op = "reset" /\ pc = "reset_task" /\ drained[1] # NoItem
     /\ pre_to_move[1] /\ pre_to_move[2]) =>
       /\ sent[1] = << Forfeit >> /\ sent[2] = << Default >>
       /\ \A s \in Seats : ~to_move[s]
       /\ \A s \in Seats : drained[s] = Item(battle[s], "end")

\* C4: when close has returned after enqueuing a forfeit order for a seat,
\* that order was handed to the seat's pending _env_move, not removed by
\* close's own drain of the order queue.
C4_CloseForfeitDelivered ==
  (op = "close" /\ pc = "idle" /\ ret = "ok") =>
    \A s \in Seats : Forfeit \in {sent[s][i] : i \in 1..Len(sent[s])}
                       => discarded[s] = << >>

\* C5: close does not return until the challenge task that was running when
\* it was called has completed.
C5_CloseWaitsForTask ==
  (op = "close" /\ pc = "idle" /\ ret = "ok" /\ pre_task # None) => TaskDone(pre_task)

CloseReturns == op = "close" /\ pc # "idle" /\ pc' = "idle" /\ ret' = "ok"

\* C6: when close returns, both order queues and both battle queues are
\* empty, battle1/battle2 and the players' attached battles are None, and the
\* challenge-task reference is cleared.
C6_CloseLeavesNothing ==
  [][CloseReturns =>
       /\ \A s \in Seats : order_queue'[s] = << >> /\ battle_queue'[s] = << >>
       /\ \A s \in Seats : battle'[s] = None /\ agent_battle'[s] = None
       /\ challenge_task' = None]_vars

\* C7: each battle queue and each order queue holds at most one item; a put
\* on a full battle queue leaves the queue as it is and waits behind the
\* earlier blocked puts, and the item of a full queue is only ever replaced
\* by the item of the oldest blocked put, once a get has taken it; an order in
\* a full order queue is never overwritten.
C7_QueuesHoldOne ==
  [][\A s \in Seats :
       /\ Len(battle_queue'[s]) <= QueueSize
       /\ Len(order_queue'[s]) <= QueueSize
       /\ Len(putters'[s]) > Len(putters[s]) =>
            /\ Len(battle_queue[s]) = QueueSize
            /\ battle_queue'[s] = battle_queue[s]
            /\ SubSeq(putters'[s], 1, Len(putters[s])) = putters[s]
       /\ Len(putters'[s]) < Len(putters[s]) =>
            /\ putters'[s] = Tail(putters[s])
            /\ battle_queue'[s] = << Head(putters[s]) >>
       /\ (battle_queue[s] # << >> /\ battle_queue'[s] # << >>
             /\ battle_queue'[s] # battle_queue[s]) =>
            putters[s] # << >> /\ battle_queue'[s] = << Head(putters[s]) >>
       /\ (order_queue[s] # << >> /\ order_queue'[s] # << >>) =>
            order_queue'[s] = order_queue[s]]_vars

C7_Witness ==
  \E s \in Seats : putters[s] # << >> /\ Len(battle_queue[s]) = QueueSize


\* the first move of the list a move index resolves against can be chosen
FirstMoveUsable(b) ==
  /\ b.active[1] /\ ~b.force_switch[1]
  /\ Mvs(b.available_moves[1], b.moves[1]) # << >>
  /\ Mvs(b.available_moves[1], b.moves[1])[1] \in Range(b.available_moves[1])

FirstMove(b) == Mvs(b.available_moves[1], b.moves[1])[1]

\* C8: in singles, for generations 4 to 9, encoding (order, battle) for an
\* order that is_valid_order accepts and decoding (action, battle) for the
\* result gives an order with the same message; action 6 decodes to the first move without gimmick and action 14,
\* when the battle can z-move, to the first move as z-move, and they encode
\* back to 6 and 14.
C8_SinglesRoundTrip ==
  (cmode = "singles" /\ strict /\ cbattle.gen \in Gens) =>
    /\ (cop = "encode" /\ is_valid_order(corder, cbattle)) =>
         /\ cres.kind = "action"
         /\ cback.kind \notin {"raise", "none"}
         /\ Message(cback) = Message(corder)
    /\ (cop = "decode" /\ caction = << 6 >> /\ FirstMoveUsable(cbattle)) =>
         /\ cres = MoveOrder(FirstMove(cbattle), 0, 0)
         /\ cback = Action(<< 6 >>)
    /\ (cop = "decode" /\ caction = << 14 >> /\ FirstMoveUsable(cbattle)
          /\ can_z_move(cbattle)) =>
         /\ cres = MoveOrder(FirstMove(cbattle), 2, 0)
         /\ cback = Action(<< 14 >>)

C8_Witness ==
  /\ cmode = "singles" /\ cop = "encode"
  /\ corder.kind = "move" /\ corder.z_move
  /\ is_valid_order(corder, cbattle)
  /\ cres = Action(<< 14 >>)
  /\ Message(cback) = << "/choose move", "m1", "zmove", 0 >>

\* the double orders a battle allows: one order of each slot's valid_orders,
\* joined, unless both slots pass
ValidDoubleOrders(b) ==
  {DoubleBattleOrder(o1, o2) :
     << o1, o2 >> \in {pr \in valid_orders(b, 1) \X valid_orders(b, 2) :
                        /\ Joinable(pr[1], pr[2])
                        /\ ~(pr[1] = PassOrder /\ pr[2] = PassOrder)}}

\* C9: a per-slot move action a of the documented range splits into a move
\* index in 0..3, a target in -2..2 and a gimmick tier in 0..4 that encode back
\* to a, and the order decoded from it encodes back to a; a decoded pass (0)
\* or switch (1..6) encodes back to the same value; and encoding a valid
\* double order and decoding the result gives the same order.
C9_DoublesRoundTrip ==
  /\ (cmode = "slot" /\ cop = "decode" /\ caction[1] \in 7..106) =>
       LET a == caction[1] IN
       /\ MoveIndex(a) \in 0..3
       /\ MoveTarget(a) \in -2..2
       /\ GimmickTier(a) \in 0..4
       /\ EncodeMove(MoveIndex(a), MoveTarget(a) + 2, GimmickTier(a)) = a
       /\ cres.kind # "raise" =>
            /\ cres.kind = "move"
            /\ cres.move_target = MoveTarget(a)
            /\ GimmickOf(cres) = GimmickTier(a)
            /\ cback = Action(<< a >>)
  /\ (cmode = "slot" /\ cop = "decode" /\ caction[1] \in 0..6 /\ cres.kind # "raise") =>
       cback = Action(caction)
  /\ (cmode = "doubles" /\ cop = "encode" /\ corder \in ValidDoubleOrders(cbattle)) =>
       /\ cres.kind = "action"
       /\ cback = corder

C9_Witness ==
  /\ cmode = "doubles" /\ cop = "encode"
  /\ corder \in ValidDoubleOrders(cbattle)
  /\ corder.first_order.kind = "move" /\ corder.first_order.mega
  /\ corder.second_order.kind = "switch"
  /\ cres = Action(<< EncodeMove(0, 3, 1), 3 >>)
  /\ cback = corder

\* a switch to a Pokemon open to a switch, or an available move of a slot
\* that need not switch
LegalInSlot(o, b, pos) ==
  /\ o.kind = "switch" => o.id \in b.available_switches
  /\ o.kind = "move" => o.id \in Range(b.available_moves[pos]) /\ ~b.force_switch[pos]

DecodedNonFake == cop = "decode" /\ ~cfake /\ cres.kind # "raise"

\* C10 (as amended): with fake = false, an order that action_to_order returns
\* and that is neither the forfeit nor the default order is legal: in singles
\* a switch is to a Pokemon in available_switches and a move is an available
\* move of a battle that is not force-switch; in doubles each slot's order is
\* the default order or a member of valid_orders of that slot (so a switch or
\* a move of it is legal in the same sense).
C10_DecodedOrdersLegal ==
  /\ (cmode = "singles" /\ DecodedNonFake) => LegalInSlot(cres, cbattle, 1)
  /\ (cmode = "doubles" /\ DecodedNonFake /\ cres.kind = "double") =>
       /\ cres.first_order = DefaultBattleOrder
            \/ (cres.first_order \in valid_orders(cbattle, 1)
                  /\ LegalInSlot(cres.first_order, cbattle, 1))
       /\ cres.second_order = DefaultBattleOrder
            \/ (cres.second_order \in valid_orders(cbattle, 2)
                  /\ LegalInSlot(cres.second_order, cbattle, 2))

C10_Witness ==
  /\ cmode = "doubles" /\ DecodedNonFake
  /\ cres.kind = "double"
  /\ cres.first_order.kind = "move" /\ cres.first_order \in valid_orders(cbattle, 1)
  /\ cres.second_order.kind = "switch" /\ cres.second_order \in valid_orders(cbattle, 2)

\* C10 (as stated): ... and in doubles each slot's order is a member of
\* valid_orders for that slot.
C10_Original ==
  /\ (cmode = "singles" /\ DecodedNonFake) => LegalInSlot(cres, cbattle, 1)
  /\ (cmode = "doubles" /\ DecodedNonFake /\ cres.kind = "double") =>
       /\ cres.first_order \in valid_orders(cbattle, 1)
       /\ LegalInSlot(cres.first_order, cbattle, 1)
       /\ cres.second_order \in valid_orders(cbattle, 2)
       /\ LegalInSlot(cres.second_order, cbattle, 2)

\* the action names a move index at or beyond the number of moves of the
\* active Pokemon
SinglesMoveBeyond(b, a) ==
  /\ a \in num_switches..(num_switches + num_moves * num_gimmicks - 1)
  /\ b.active[1]
  /\ (a - num_switches) % num_moves >= Len(b.moves[1])

DoublesMoveBeyond(b, action) ==
  /\ ~ForfeitInEither(action)
  /\ \E pos \in 1..2 :
       /\ action[pos] >= 7
       /\ b.active[pos]
       /\ MoveIndex(action[pos]) >= Len(b.moves[pos])

\* C11: decoding an action that names a move index at or beyond the number of
\* moves of the active Pokemon raises an error when strict is true and returns
\* the default order (message "/choose default") when strict is false, for the
\* same battle and action; the battle is unchanged.
C11_BeyondMovesetStrictOrDefault ==
  [][(/\ cop' = "decode"
      /\ \/ cmode = "singles" /\ SinglesMoveBeyond(cbattle, caction'[1])
         \/ cmode = "doubles" /\ DoublesMoveBeyond(cbattle, caction'))
       => /\ strict => cres'.kind = "raise"
          /\ ~strict => Message(cres') = << "/choose default" >>
          /\ cbattle' = cbattle]_vars

\* C12: with strict = false, DoublesEnv.action_to_order returns an order for
\* every input (a switch slot beyond the team, a move index beyond the
\* moveset, a move for a slot without active Pokemon, any other value) and
\* never raises.
C12_LenientNeverRaises ==
  (cop = "decode" /\ cmode = "doubles" /\ ~strict) =>
    cres.kind \in {"forfeit", "default", "double"}

\* a move order sets a gimmick flag only if the battle has the capability
GimmickGated(o, b) ==
  o.kind = "move" =>
    /\ o.mega => can_mega_evolve(b)
    /\ o.z_move => can_z_move(b)
    /\ o.dynamax => can_dynamax(b)
    /\ o.terastallize => can_tera(b)

\* the capability of gimmick tier g is not set
TierClosed(g, b) ==
  \/ g = 1 /\ ~can_mega_evolve(b)
  \/ g = 2 /\ ~can_z_move(b)
  \/ g = 3 /\ ~can_dynamax(b)
  \/ g = 4 /\ ~can_tera(b)

\* C13: with fake = false, action_to_order returns no move order with mega,
\* z_move, dynamax or terastallize set unless the battle's can_mega_evolve,
\* can_z_move, can_dynamax or can_tera flag is set; an action of a gimmick tier
\* whose flag is not set is rejected (raises) in strict mode.
C13_GimmicksGated ==
  /\ (cmode \in {"singles", "slot"} /\ DecodedNonFake) => GimmickGated(cres, cbattle)
  /\ (cmode = "doubles" /\ DecodedNonFake /\ cres.kind = "double") =>
       /\ GimmickGated(cres.first_order, cbattle)
       /\ GimmickGated(cres.second_order, cbattle)
  /\ (cmode = "singles" /\ cop = "decode" /\ strict /\ ~cfake
        /\ caction[1] >= num_switches + num_moves
        /\ TierClosed((caction[1] - num_switches) \div num_moves, cbattle)) =>
       cres.kind = "raise"
  /\ (cmode = "slot" /\ cop = "decode" /\ strict /\ ~cfake
        /\ caction[1] >= 27
        /\ TierClosed(GimmickTier(caction[1]), cbattle)) =>
       cres.kind = "raise"
  /\ (cmode = "doubles" /\ cop = "decode" /\ strict /\ ~cfake
        /\ caction[1] # -1 /\ caction[2] # -1
        /\ \E i \in 1..2 : /\ caction[i] >= 27
                            /\ TierClosed(GimmickTier(caction[i]), cbattle)) =>
       cres.kind = "raise"

C13_Witness ==
  /\ cmode = "singles" /\ cop = "decode" /\ strict /\ ~cfake
  /\ caction = << 14 >>
  /\ FirstMoveUsable(cbattle)
  /\ can_mega_evolve(cbattle) /\ ~can_z_move(cbattle)
  /\ cres = Raise("AssertionError")

C15_DefaultSentinel ==
  /\ (cmode = "singles" /\ strict /\ cop = "encode" /\ corder = DefaultBattleOrder) =>
       cres = Action(<< -2 >>)
  /\ (cmode = "doubles" /\ cop = "encode" /\ corder = DefaultBattleOrder) =>
       cres = Action(<< -2, -2 >>)
  /\ (cmode = "singles" /\ strict /\ cop = "decode" /\ caction = << -2 >>) =>
       cres = DefaultBattleOrder
  /\ (cmode = "slot" /\ cop = "decode" /\ caction = << -2 >>) =>
       cres = DefaultBattleOrder

\* remaining Pokemon of the two sides of the battle the helper got
RemainingMine == hbattle.team_size - NumFainted(hbattle.team)
RemainingTheirs == hbattle.team_size - NumFainted(hbattle.opponent_team)

\* C16: calc_term_trunc returns (False, False) for an unfinished battle; for
\* a finished battle terminated is true exactly when one side has no Pokemon
\* remaining (team_size minus its fainted count) and the other has more than
\* zero, and truncated is true otherwise; the two are never both true.
C16_TermTruncRule ==
  hop = "calc_term_trunc" =>
    LET terminated == hres.v[1]
        truncated == hres.v[2]
    IN /\ ~hbattle.finished => (~terminated /\ ~truncated)
       /\ hbattle.finished =>
            /\ terminated <=> \/ (RemainingMine = 0 /\ RemainingTheirs > 0)
                              \/ (RemainingTheirs = 0 /\ RemainingMine > 0)
            /\ truncated <=> ~terminated
       /\ ~(terminated /\ truncated)

\* a finished battle of full teams, the own side knocked out, the opponent not
C16_Witness ==
  /\ hop = "calc_term_trunc"
  /\ hbattle.finished
  /\ hbattle.team_size = MaxTeam
  /\ RemainingMine = 0 /\ RemainingTheirs > 0
  /\ hres.v = << TRUE, FALSE >>

\* C17: both step methods classify the end of an episode by the same rule:
\* PokeEnv.step (for either seat) and BaseEnv.step report terminated only when
\* exactly one side has no Pokemon remaining, and truncated for every other
\* finish.
C17_SameRuleInBothSteps ==
  /\ hop = "PokeEnv.step" =>
       \A s \in Seats :
         /\ hres.v.terminated[s] =>
              (hbattle.finished /\ (RemainingMine = 0) # (RemainingTheirs = 0))
         /\ (hbattle.finished /\ ~hres.v.terminated[s]) => hres.v.truncated[s]
  /\ hop = "BaseEnv.step" =>
       /\ hres.v[1] =>
            (hbattle.finished /\ (RemainingMine = 0) # (RemainingTheirs = 0))
       /\ (hbattle.finished /\ ~hres.v[1]) => hres.v[2]

\* C18: a call of reward_computing_helper that repeats the call before it,
\* with the same weights on a battle that did not change in between, returns 0.
C18_RepeatedRewardIsZero ==
  (hop = "reward" /\ hres.again) => hres.v = 0

\* the repeated call on a battle with Pokemon on both sides that the player
\* won, every factor weighted: the state's value is not the starting value
C18_Witness ==
  /\ hop = "reward" /\ hres.again /\ hres.v = 0
  /\ hweights = FullWeights
  /\ Len(hbattle.team) = MaxTeam /\ Len(hbattle.opponent_team) > 0
  /\ hbattle.won = "true"
  /\ CurrentValue(hbattle, hweights) # hweights.starting_value

\* reset is called: the caller leaves the idle position or its history changes
ResetCalled == pc = "idle" /\ op' = "reset" /\ << pc, histVars >>' # << pc, histVars >>

\* battle1 is unfinished and is not the battle attached to seat 1's player
Desync == battle[1] # None /\ ~Finished(1, battle[1]) /\ battle[1] # agent_battle[1]

\* C19: reset called while battle1 is unfinished and is not the battle
\* attached to seat 1's player raises, without enqueuing an order, without
\* taking anything from the battle queues and without starting a new match.
C19_DesyncResetRaises ==
  [][(ResetCalled /\ Desync) =>
       /\ pc' = "idle" /\ ret' = "raise"
       /\ sent' = NoOrders /\ order_queue' = order_queue
       /\ drained' = [s \in Seats |-> NoItem] /\ battle_queue' = battle_queue
       /\ nTasks' = nTasks /\ challenge_task' = challenge_task
       /\ to_move' = to_move]_vars

\* the reset that raised: both battles tracked, seat 1 to move, a snapshot
\* waiting in seat 1's battle queue, another battle attached to the player
C19_Witness ==
  /\ op = "reset" /\ ret = "raise" /\ pc = "idle"
  /\ Desync
  /\ battle[2] # None /\ agent_battle[1] # None
  /\ to_move[1]
  /\ battle_queue[1] # << >>
  /\ order_queue = NoOrders /\ nTasks = 0

\* C20: after initiating a match, reset waits for both seats to have a battle
\* attached for a bounded number of sleeps and then raises 'Agent is not
\* challenging'; it never waits without bound for the match to start: from
\* the wait it always comes to return or to raise.
C20_ResetWaitIsBounded ==
  (pc = "reset_wait") ~> (pc \in {"idle", "failed"})

\* ---------------------------------------------------------------- C21
\* the forced part of _stop_challenge_loop is under way on an unfinished
\* battle and an order is still on some seat's order queue
StillSending ==
  /\ pc \in {"close_stop", "close_sleep"}
  /\ battle[1] # None /\ ~Finished(1, battle[1]) /\ battle[2] # None
  /\ \E s \in Seats : order_queue[s] # << >>

\* C21: during a forced shutdown of an unfinished battle with an order on
\* either order queue, the first check only goes to sleep, and the check after
\* the sleep raises if an order is still there; neither step enqueues a
\* forced order, takes anything from a queue, or detaches a battle.
C21_StillSendingIsFatal ==
  [][(StillSending /\ pc' # pc)
       => /\ IF pc = "close_stop" THEN pc' = "close_sleep" /\ ret' = ret
                                  ELSE pc' = "idle" /\ ret' = "raise"
          /\ sent' = NoOrders
          /\ UNCHANGED << order_queue, battle_queue, putters, battle,
                          agent_battle, to_move, challenge_task >>]_vars

\* close has raised with an order still unconsumed and the battles attached
C21_Witness ==
  /\ op = "close" /\ pc = "idle" /\ ret = "raise"
  /\ \E s \in Seats : order_queue[s] # << >>
  /\ battle[1] # None /\ ~Finished(1, battle[1])
  /\ agent_battle[1] # None
  /\ sent = NoOrders

\* ---------------------------------------------------------------- C25
\* g of the claim: 1, 2, 3, 4 for a name that starts with gen6, gen7, gen8,
\* gen9, and 0 for every other name
GimmicksByName(f) ==
  IF Len(f) >= 4 /\ f[1] = "g" /\ f[2] = "e" /\ f[3] = "n"
    THEN CASE f[4] = "6" -> 1
           [] f[4] = "7" -> 2
           [] f[4] = "8" -> 3
           [] f[4] = "9" -> 4
           [] OTHER -> 0
    ELSE 0

\* C25: the singles action space has 6 + 4*(1+g) actions and each slot of the
\* doubles action space 1 + 6 + 20*(1+g), g being given by the generation
\* prefix of the battle format.
C25_ActionSpaceSizes ==
  hmode = "space" =>
    LET g == GimmicksByName(hbattle.battle_format) IN
    /\ hop = "SinglesEnv" => hres = [kind |-> "Discrete", n |-> 6 + 4 * (1 + g)]
    /\ hop = "DoublesEnv" =>
         hres = [kind |-> "MultiDiscrete",
                 n |-> << 1 + 6 + 20 * (1 + g), 1 + 6 + 20 * (1 + g) >>]

\* the doubles space of a gen9 format, and the singles space of a gen7 one
C25_Witness ==
  /\ hmode = "space"
  /\ \/ /\ hop = "DoublesEnv"
        /\ hbattle.battle_format = Gen \o << "9", "r" >>
        /\ hres.n = << 107, 107 >>
     \/ /\ hop = "SinglesEnv"
        /\ hbattle.battle_format = Gen \o << "7", "r" >>
        /\ hres.n = 18

\* ---------------------------------------------------------------- C26
\* the step of the model in which step() ends its race_get for seat s
RaceEnds(s) == pc = RacePc(s) /\ pc' # pc

\* an item has left the battle queue of seat s, or the puts blocked on it
Taken(s) ==
  Len(battle_queue'[s]) + Len(putters'[s]) < Len(battle_queue[s]) + Len(putters[s])

StepReturns == op = "step" /\ pc = "step_end" /\ pc' = "idle"

\* C26: when step returns, the to_move flag of a seat is set exactly if the
\* race_get of that step took a snapshot from the seat's battle queue, and for
\* a seat without new snapshot the battle tracked before is the one the
\* observation, the reward and the termination are computed from.
C26_FlagFollowsSnapshot ==
  [][/\ \A s \in Seats : RaceEnds(s) => (Taken(s) <=> got'[s] # None)
     /\ StepReturns =>
          \A s \in Seats :
            /\ to_move'[s] <=> got[s] # None
            /\ got[s] = None => StepBattle(got, s) = battle[s]
            /\ got[s] # None => StepBattle(got, s) = got[s]
            /\ battle'[s] = battle[s]]_vars

\* step has returned with a new snapshot for seat 2 only
C26_Witness ==
  /\ op = "step" /\ pc = "idle" /\ ret = "ok"
  /\ got[1] = None /\ ~to_move[1]
  /\ got[2] # None /\ to_move[2]
  /\ StepBattle(got, 1) = battle[1]

\* ---------------------------------------------------------------- C27
\* seat s has received a message that makes it publish a snapshot (a request,
\* a rejected choice, the end of the battle) and has not handled it yet
AboutToPublish(s) == \E i \in 1..Len(inbox[s]) : inbox[s][i].kind # "wait"

\* C27: the result of step does not depend on which seat publishes first.
\* When seat 2 has published ahead of seat 1, its snapshot stays in its own
\* queue while step waits for seat 1, step's result for seat 1 is an item of
\* seat 1's own queue, and the snapshot seat 1 is about to publish is the one
\* step returns for seat 1, as it is when seat 1 publishes first.
C27_EitherSeatFirst ==
  [][(pc = "race1" /\ pc' = "race2") =>
       /\ battle_queue'[2] = battle_queue[2] /\ putters'[2] = putters[2]
       /\ got'[1] # None => got'[1] = Head(battle_queue[1]).b
       /\ (battle_queue[2] # << >> /\ AboutToPublish(1)) => got'[1] # None]_vars

\* ---------------------------------------------------------------- C28
\* the item a finished get_task holds until race_get returns it
HeldByRace ==
  IF raced.status = "racing" /\ task["get_task"].st = "done"
    THEN << task["get_task"].item >> ELSE << >>

\* C28: race_get returns the item its get took if the get completed, and None
\* if only the event fired; when it has returned None its get task is
\* cancelled and no getter of it is left on the queue, and every item put is
\* still on the queue or was received by the caller, in the order of the puts.
C28_RaceGetLeavesNoGetter ==
  /\ raced.status = "returned" =>
       /\ raced.value # None => task["get_task"] = [st |-> "done", item |-> raced.value]
       /\ raced.value = None =>
            /\ task["wait_task"].st = "done"
            /\ task["get_task"].st = "cancelled"
            /\ \A i \in 1..Len(rq_getters) : rq_getters[i] # "get_task"
  /\ received \o HeldByRace \o rq_items = [i \in 1..nput |-> i]

\* race_get has returned None, and the get called after it received an item
C28_Witness ==
  /\ raced.status = "returned" /\ raced.value = None
  /\ task["get"].st = "done"
  /\ received # << >> /\ received[Len(received)] = task["get"].item

\* ---------------------------------------------------------------- C22
\* token i of line l is the word w, or holds it
Is(sm, l, i, w) == Has(sm, l, i) /\ At(sm, l, i) = Word(w)
In(sm, l, i, w) == Has(sm, l, i) /\ Contains(At(sm, l, i), w)

\* the message is one the awaited kind is about: its acknowledgement, or its
\* popup or spam notice
Matches(mt, sm, rm) ==
  CASE mt = "LOGIN"     -> Is(sm, 0, 1, "challstr")
    [] mt = "GAMES"     -> Is(sm, 0, 1, "updatesearch") \/ Is(sm, 0, 1, "popup")
    [] mt = "CHALLENGE" ->
         \/ Is(sm, 0, 1, "popup")
         \/ /\ Is(sm, 0, 1, "pm")
            /\ \/ Is(sm, 0, 2, Bang(Username)) /\ In(sm, 0, 4, Spam)
               \/ Is(sm, 0, 2, Space(Username)) /\ In(sm, 0, 4, Wants)
    [] mt = "CANCEL"    ->
         \/ Is(sm, 0, 1, "popup")
         \/ Is(sm, 0, 1, "pm") /\ Is(sm, 0, 2, Space(Username))
              /\ In(sm, 0, 4, Cancelled)
    [] mt = "ACCEPT"    ->
         Is(sm, 0, 1, "pm") /\ Is(sm, 0, 3, Space(Username)) /\ In(sm, 0, 4, Wants)
    [] mt = "OBSERVE"   ->
         \/ Len(sm) = 2 /\ Len(sm[2]) = 3 /\ Is(sm, 1, 1, "request") /\ sm[2][3] # << >>
         \/ \E l \in 1..Len(sm) : sm[l] = << << >>, << >> >>
    [] mt = "LEAVE"     -> rm # NoRoom /\ In(sm, 0, 0, rm) /\ Is(sm, 1, 1, "deinit")
    [] OTHER            -> FALSE

Received == message # NoMessage

\* C22: a received message that does not match the awaited kind, whatever its
\* shape, leaves find_message waiting: it has neither returned nor raised
\* because of it (it may still time out).
C22_NonMatchingIsDiscarded ==
  (Received /\ ~Matches(message_type, split_messages(message), room))
    => found.status \in {"waiting", "TimeoutError"}

\* ---------------------------------------------------------------- C23
PopupKinds == {"GAMES", "CHALLENGE", "CANCEL"}

\* the first line is `<room>|popup|<text>`
PopupLine(sm) == Len(sm[1]) >= 3 /\ sm[1][2] = Word("popup")

\* C23: while GAMES, CHALLENGE or CANCEL is awaited, a message whose first
\* line is a popup line has made find_message raise PopupError with the text
\* token of that line, and find_message has received nothing after it.
C23_PopupRaisesWithText ==
  (message_type \in PopupKinds /\ Received /\ PopupLine(split_messages(message)))
    => found = [status |-> "PopupError", value |-> split_messages(message)[1][3]]

C23_Witness ==
  /\ message_type = "CANCEL"
  /\ Received
  /\ PopupLine(split_messages(message))
  /\ Len(split_messages(message)[1]) > 3
  /\ found.status = "PopupError"

\* ---------------------------------------------------------------- C24
\* C24: find_message called with a timeout is not left waiting past the
\* deadline: once the timeout has elapsed since the call without a matching
\* message, whatever else arrived meanwhile, it has raised.
C24_TimeoutBoundsTheWait ==
  (found.status = "waiting" /\ timeout # None) => elapsed <= timeout

\* C29: each decision point of a seat publishes one snapshot and then consumes
\* one order, which it returns as the seat's choice, the k-th order enqueued
\* answering the k-th snapshot published: the orders that leave a seat's order
\* queue in a step are the oldest ones, each returned, in queue order, as the
\* choice of the seat's oldest waiting decision points
OrdersLeaving(s) == Len(order_queue[s]) - Len(order_queue'[s])

C29_OrdersAnswerSnapshotsInOrder ==
  [][\A s \in Seats :
       OrdersLeaving(s) > 0 =>
         /\ Len(outbox'[s]) = Len(outbox[s]) + OrdersLeaving(s)
         /\ Len(getters[s]) >= OrdersLeaving(s)
         /\ \A k \in 1..OrdersLeaving(s) :
              outbox'[s][Len(outbox[s]) + k] =
                Choice(getters[s][k], order_queue[s][k])]_vars

\* C30: in BaseEnv.step a seat sends a /choose command only if its latest
\* request exists and has no "wait" flag, a seat with no request or with a
\* "wait" request sends nothing in that step, and both seats' commands are
\* sent before either seat's next observe
RequestOf(who) == IF who = "agent" THEN agent_request ELSE env_player_request

CanChoose(request) == request.kind = "request" /\ ~request.wait

NewEvents ==
  IF bpc = "idle" THEN transcript'
  ELSE SubSeq(transcript', Len(transcript) + 1, Len(transcript'))

ChoseIn(t, who) == \E i \in 1..Len(t) : t[i].what = "choose" /\ t[i].who = who

C30_ChooseOnlyOnRequest ==
  [][/\ \A who \in {"agent", "env_player"} :
          ChoseIn(NewEvents, who) => CanChoose(RequestOf(who))
     /\ bpc' = "step_observe_agent" =>
          \A who \in {"agent", "env_player"} :
            ~CanChoose(RequestOf(who)) => ~ChoseIn(transcript', who)
     /\ \A i, j \in 1..Len(transcript') :
          (i < j /\ transcript'[i].what = "observe") => transcript'[j].what # "choose"
    ]_vars

C30_Witness ==
  /\ bpc = "step_observe_env_player"
  /\ env_player_request.kind = "request" /\ env_player_request.wait
  /\ Len(transcript) = 2
  /\ transcript[1].what = "choose" /\ transcript[1].who = "agent"
  /\ transcript[2] = Observed("agent")

\* C34: in doubles with fake=false, when the side has exactly one available
\* switch-in and both slots must switch, an action in which both slots are
\* switches, and a double order of two switches being encoded, is rejected:
\* ValueError under strict, else the default order (decoding) or [-2, -2]
\* (encoding)
BothMustShareOneSwitch ==
  /\ cmode = "doubles" /\ ~cfake
  /\ Cardinality(cbattle.available_switches) = 1
  /\ cbattle.force_switch = << TRUE, TRUE >>

TwoSwitchesDecoded ==
  /\ cop = "decode"
  /\ \A i \in 1..2 : 1 <= caction[i] /\ caction[i] <= 6

TwoSwitchesEncoded ==
  /\ cop = "encode" /\ corder.kind = "double"
  /\ corder.first_order.kind = "switch" /\ corder.second_order.kind = "switch"

C34_DoubleSwitchOnOneRejected ==
  BothMustShareOneSwitch =>
    /\ TwoSwitchesDecoded =>
         cres = IF strict THEN Raise("ValueError") ELSE DefaultBattleOrder
    /\ TwoSwitchesEncoded =>
         cres = IF strict THEN Raise("ValueError") ELSE Action(<< -2, -2 >>)

C34_Witness ==
  /\ BothMustShareOneSwitch /\ ~strict
  /\ TwoSwitchesEncoded
  /\ cres = Action(<< -2, -2 >>)

C34_WitnessDecode ==
  /\ BothMustShareOneSwitch /\ strict
  /\ TwoSwitchesDecoded
  /\ cres = Raise("ValueError")

\* C35: in every codec, when the active Pokemon's sole available move is
\* struggle or recharge, move index 0 decodes to that forced move and the
\* forced move encodes to move index 0; otherwise move index i decodes to the
\* i-th move of the active Pokemon's moveset; and a switch action decodes to
\* a switch all the same
ForcedAt(pos) ==
  /\ Len(cbattle.available_moves[pos]) = 1
  /\ cbattle.available_moves[pos][1] \in ForcedMoves

\* the move a move index stands for at a slot, "" if it stands for no move
MoveAt(pos, index) ==
  IF ForcedAt(pos)
    THEN IF index = 0 THEN cbattle.available_moves[pos][1] ELSE ""
    ELSE IF index < Len(cbattle.moves[pos]) THEN cbattle.moves[pos][index + 1] ELSE ""

SinglesIndex(a) == (a - num_switches) % num_moves

Decoded == cop = "decode" /\ cres.kind # "raise"

EncodedForced(pos) ==
  /\ cop = "encode" /\ cres.kind = "action"
  /\ corder.kind = "move" /\ ForcedAt(pos)
  /\ corder.id = cbattle.available_moves[pos][1]

ForcedMoveInSingles ==
  cmode = "singles" =>
    /\ (Decoded /\ caction[1] \in 0..(num_switches - 1)) =>
         cres = SwitchOrder(cbattle.team[caction[1] + 1])
    /\ (Decoded /\ caction[1] >= num_switches) =>
         cres.kind = "move" /\ cres.id = MoveAt(1, SinglesIndex(caction[1]))
    /\ EncodedForced(1) =>
         cres.a[1] >= num_switches /\ SinglesIndex(cres.a[1]) = 0

ForcedMoveInDoubles ==
  cmode = "slot" =>
    /\ (Decoded /\ caction[1] \in 1..num_switches) =>
         cres = SwitchOrder(cbattle.team[caction[1]])
    /\ (Decoded /\ caction[1] > num_switches) =>
         cres.kind = "move" /\ cres.id = MoveAt(cpos, MoveIndex(caction[1]))
    /\ EncodedForced(cpos) =>
         cres.a[1] > num_switches /\ MoveIndex(cres.a[1]) = 0

ForcedMoveInBaseEnv ==
  (cmode = "base" /\ cop = "decode") =>
    /\ caction[1] < num_switches => cres = PyStr(<< "switch", caction[1] >>)
    /\ (caction[1] >= num_switches /\ cbattle.first \notin ForcedMoves) =>
         cres.s[1] = "move" /\ cres.s[2] = SinglesIndex(caction[1])
    /\ (caction[1] >= num_switches /\ cbattle.first \in ForcedMoves
          /\ SinglesIndex(caction[1]) = 0) =>
         cres = PyStr(<< "move", cbattle.first >>)

C35_ForcedMoveIsIndexZero ==
  ForcedMoveInSingles /\ ForcedMoveInDoubles /\ ForcedMoveInBaseEnv

\* C36: with fake=true the doubles decoder checks no legality: an action whose
\* decoded order is not in valid_orders, a move action on a slot that must
\* switch, and a pair of slot orders that cannot be joined are returned as
\* decoded, never rejected with an error nor replaced by the default order
FakeSlotOrder(pos) == action_to_order_individual(caction[pos], cbattle, TRUE, pos)

BothSlotsDecodeUnchecked ==
  /\ cmode = "doubles" /\ cfake /\ cop = "decode"
  /\ ~ForfeitInEither(caction)
  /\ \A pos \in 1..2 : FakeSlotOrder(pos).kind \in {"switch", "move"}

C36_FakeDecodesUnchecked ==
  BothSlotsDecodeUnchecked =>
    cres = DoubleBattleOrder(FakeSlotOrder(1), FakeSlotOrder(2))

\* C40: over the per-slot range of doubles, two different move action values
\* never decode to the same (move, target, gimmick) order, and a value beyond
\* the five gimmick tiers is not decoded as a plain move without a gimmick
SlotMoveDecoded ==
  /\ cmode = "slot" /\ cop = "decode"
  /\ caction[1] >= 1 + num_switches
  /\ cres.kind = "move"

C40_MoveActionsDistinct ==
  SlotMoveDecoded =>
    /\ \A other \in SlotActions :
         (other >= 1 + num_switches /\ other # caction[1]) =>
           action_to_order_individual(other, cbattle, cfake, cpos) # cres
    /\ GimmickTier(caction[1]) < num_gimmicks

\* C37: a peer's _trying_again or an own _waiting signal raised during a step
\* is cleared by the time that step returns, so that no signal of an earlier
\* step is left to end a later step's race_get with None
C37_SignalsClearedByStep ==
  [][StepReturns =>
       \A s \in Seats : ~waiting'[s] /\ ~trying_again'[s]]_vars

\* C38: after a successful reset, every step on an unfinished battle
\* eventually returns, provided that each seat eventually publishes a
\* snapshot, raises its _waiting signal or has its peer raise _trying_again:
\* a step under way that is not waiting for such a seat always comes to
\* return, or to wait for a seat that has not answered yet
StepUnderWay == op = "step" /\ pc \in {"step1", "step2", "race1", "race2", "step_end"}

\* step waits in race_get for a seat that has published no snapshot and for
\* which neither signal is raised
SeatSilent(s) ==
  /\ pc = RacePc(s)
  /\ battle_queue[s] = << >>
  /\ ~waiting[s] /\ ~trying_again[Other(s)]

C38_StepReturns ==
  (StepUnderWay /\ ~\E s \in Seats : SeatSilent(s))
    ~> (pc = "idle" \/ \E s \in Seats : SeatSilent(s))

\* a step has returned that got a snapshot of seat 1 and a signal for seat 2
C38_Witness ==
  /\ op = "step" /\ pc = "idle" /\ ret = "ok"
  /\ got[1] # None /\ got[2] = None
  /\ to_move[1] /\ ~to_move[2]


\* ---------------------------------------------------------------------------
\* SingleAgentWrapper (environment/single_agent_wrapper.py): one agent plays
\* through the two-agent env, the wrapper answers for the opponent.
\* WrapperSpec draws the battles a reset yields and the opponent's teampreview
\* orders from small sets.

\* steps of one episode that are recorded
MaxWrapSteps == 3

\* what Player.teampreview answers, a str as the sequence of its characters:
\* "/team " and the team positions in order
TeampreviewOrders ==
  { << "/", "t", "e", "a", "m", " ", "1", "2", "3", "4" >>,
    << "/", "t", "e", "a", "m", " ", "3", "4", "1", "2" >>,
    << "/", "t", "e", "a", "m", " ", "6", "2", "5", "1" >> }

\* int(c) of a one-character str
int(c) ==
  CASE c = "1" -> 1 [] c = "2" -> 2 [] c = "3" -> 3
    [] c = "4" -> 4 [] c = "5" -> 5 [] c = "6" -> 6

\* s[-n:]
LastChars(s, n) ==
  IF Len(s) <= n THEN s ELSE SubSeq(s, Len(s) - n + 1, Len(s))

\* [int(i) for i in teampreview_order_str[-4:]]
teampreview_order_list(s) ==
  [ k \in 1..Len(LastChars(s, 4)) |-> int(LastChars(s, 4)[k]) ]

\* l[:n] and l[n:]
Take(l, n) == SubSeq(l, 1, IF n < Len(l) THEN n ELSE Len(l))

Drop(l, n) == SubSeq(l, n + 1, Len(l))

\* the formats of the battles: "vgc" in format
WrapFormats == { PyNone, PyStr("gen9vgc2025regg"), PyStr("gen9randombattle") }

HasVgc(f) == f = PyStr("gen9vgc2025regg")

\* env.battle2 as env.reset() leaves it: nothing selected yet
FreshBattle2 ==
  [ teampreview : BOOLEAN, format : WrapFormats, selected : { {} } ]

Elems(l) == { l[k] : k \in 1..Len(l) }

\* SingleAgentWrapper.reset: the env resets and hands out a new battle2, the
\* opponent is pointed at it; second_teampreview_action is not assigned
WrapperReset ==
  /\ \E b \in FreshBattle2 : wbattle2' = b
  /\ UNCHANGED second_teampreview_action
  /\ wsteps' = << >>
  /\ wret' = "reset"
  /\ UNCHANGED << syncVars, codecVars, helperVars, clientVars, raceVars, baseVars, obsVars >>

\* env.step as the wrapper sees it: a teampreview once over stays over
AfterEnvStep(b) ==
  { [ b EXCEPT !.teampreview = t ] : t \in IF b.teampreview THEN BOOLEAN ELSE { FALSE } }

\* step before any reset: env.battle2 is None
WrapperStepNoBattle ==
  /\ wbattle2 = PyNone
  /\ wret' = "AssertionError"
  /\ UNCHANGED << second_teampreview_action, wbattle2, wsteps >>
  /\ UNCHANGED << syncVars, codecVars, helperVars, clientVars, raceVars, baseVars, obsVars >>

\* step outside teampreview: the opponent's choose_move is encoded
WrapperStepMove ==
  /\ wbattle2 # PyNone
  /\ ~wbattle2.teampreview
  /\ Len(wsteps) < MaxWrapSteps
  /\ wsteps' = Append(wsteps, [ kind |-> "move" ])
  /\ wbattle2' \in AfterEnvStep(wbattle2)
  /\ wret' = "step"
  /\ UNCHANGED second_teampreview_action
  /\ UNCHANGED << syncVars, codecVars, helperVars, clientVars, raceVars, baseVars, obsVars >>

\* teampreview of a format that is not VGC
WrapperStepNotImplemented ==
  /\ wbattle2 # PyNone
  /\ wbattle2.teampreview
  /\ ~HasVgc(wbattle2.format)
  /\ wret' = "NotImplementedError"
  /\ UNCHANGED << second_teampreview_action, wbattle2, wsteps >>
  /\ UNCHANGED << syncVars, codecVars, helperVars, clientVars, raceVars, baseVars, obsVars >>

\* teampreview with nothing stored: the opponent is asked, the first two picks
\* are played and the last two stored
WrapperStepAsk ==
  /\ wbattle2 # PyNone
  /\ wbattle2.teampreview
  /\ HasVgc(wbattle2.format)
  /\ second_teampreview_action = PyNone
  /\ Len(wsteps) < MaxWrapSteps
  /\ \E s \in TeampreviewOrders :
       /\ second_teampreview_action' = Drop(teampreview_order_list(s), 2)
       /\ wsteps' = Append(wsteps,
            [ kind |-> "ask", opp_action |-> Take(teampreview_order_list(s), 2) ])
       /\ wbattle2' \in AfterEnvStep(
            [ wbattle2 EXCEPT !.selected = Elems(Take(teampreview_order_list(s), 2)) ])
  /\ wret' = "step"
  /\ UNCHANGED << syncVars, codecVars, helperVars, clientVars, raceVars, baseVars, obsVars >>

\* teampreview with picks stored: they are played and cleared
WrapperStepReplay ==
  /\ wbattle2 # PyNone
  /\ wbattle2.teampreview
  /\ HasVgc(wbattle2.format)
  /\ second_teampreview_action # PyNone
  /\ Len(wsteps) < MaxWrapSteps
  /\ wsteps' = Append(wsteps,
       [ kind |-> "replay", opp_action |-> second_teampreview_action ])
  /\ wbattle2' \in AfterEnvStep(
       [ wbattle2 EXCEPT !.selected = @ \cup Elems(second_teampreview_action) ])
  /\ second_teampreview_action' = PyNone
  /\ wret' = "step"
  /\ UNCHANGED << syncVars, codecVars, helperVars, clientVars, raceVars, baseVars, obsVars >>

WrapperInit ==
  /\ WrapIdle
  /\ SyncInit
  /\ CodecIdle
  /\ HelperIdle
  /\ ClientIdle
  /\ RaceIdle
  /\ BaseIdle
  /\ ObsIdle

WrapperNext ==
  \/ WrapperReset
  \/ WrapperStepNoBattle
  \/ WrapperStepMove
  \/ WrapperStepNotImplemented
  \/ WrapperStepAsk
  \/ WrapperStepReplay

WrapperSpec == WrapperInit /\ [][WrapperNext]_vars

\* the teampreview steps among the recorded steps, in order
RECURSIVE TeampreviewSteps(_)
TeampreviewSteps(l) ==
  IF l = << >> THEN << >>
  ELSE IF l[1].kind = "move" THEN TeampreviewSteps(Tail(l))
  ELSE << l[1] >> \o TeampreviewSteps(Tail(l))

\* a reset has returned and no step was taken since
JustReset == wret = "reset"

\* the k-th teampreview step of the episode asks when k is odd, replays when even
Alternates(l) ==
  \A k \in 1..Len(l) : l[k].kind = (IF k % 2 = 1 THEN "ask" ELSE "replay")

\* C39: after reset() no teampreview pick of the previous episode is pending
\* (second_teampreview_action is None), so the teampreview steps of an episode
\* alternate between asking the opponent and replaying the stored picks,
\* starting with asking.
C39_NoPickPendingAfterReset ==
  /\ JustReset => second_teampreview_action = PyNone
  /\ Alternates(TeampreviewSteps(wsteps))

\* a reset came between the two teampreview steps of an episode: the picks
\* stored for the second step are still there
C39_StalePick ==
  /\ JustReset
  /\ second_teampreview_action # PyNone

\* the first teampreview step of an episode replays the picks of the last one
C39_FirstStepReplays ==
  /\ TeampreviewSteps(wsteps) # << >>
  /\ TeampreviewSteps(wsteps)[1].kind = "replay"

\* within an episode, a teampreview step that asked is followed by one that
\* replays the two picks the asking step stored, and a replay by asking
C39_AlternatesWithinEpisode ==
  \A k \in 1..(Len(TeampreviewSteps(wsteps)) - 1) :
    TeampreviewSteps(wsteps)[k].kind # TeampreviewSteps(wsteps)[k + 1].kind

\* ---------------------------------------------------------------------------
\* BasePlayer.observe (showdown/base_player.py 123-157): the battle a player
\* tracks across the batches it reads. The Battle class is not part of the
\* sources; parse_request, parse_message, won_by and tied follow the
\* specification. ObserveSpec draws the requests and the protocol batches from
\* small sets.

\* event lines of one protocol batch, before its closing line
MaxLines == 2

\* the player's own Pokémon, by identity key
Idents == { "p1: Abra", "p1: Bulu", "p1: Cleffa" }

ObsUsername == "Agent"

\* the side.pokemon lists of the requests: the whole team in several orders,
\* and parts of it
PokemonLists ==
  { << "p1: Abra", "p1: Bulu", "p1: Cleffa" >>,
    << "p1: Bulu", "p1: Abra", "p1: Cleffa" >>,
    << "p1: Cleffa", "p1: Abra", "p1: Bulu" >>,
    << "p1: Abra", "p1: Bulu" >>,
    << "p1: Bulu" >> }

ObsRequests ==
  [ pokemon : PokemonLists,
    moves : { << >>, << "tackle", "growl" >> },
    forceSwitch : BOOLEAN ]

\* a line split at "|"
HeaderLine == << ">battle-gen9randombattle-1" >>

EventLines ==
  { << "", "" >>, << "", "t:", "1700000000" >>,
    << "", "faint", "p1: Abra" >>, << "", "switch", "p1: Cleffa" >> }

EndLines ==
  { << "", "win", "Agent" >>, << "", "win", "Rival" >>, << "", "tie" >> }

RECURSIVE SeqsUpTo(_, _)
SeqsUpTo(S, n) ==
  IF n = 0 THEN { << >> }
  ELSE SeqsUpTo(S, n - 1)
         \cup { Append(l, x) : l \in { m \in SeqsUpTo(S, n - 1) : Len(m) = n - 1 }, x \in S }

\* protocol batches: the room header, event lines, and at most one closing line
Protocols ==
  { << HeaderLine >> \o l \o e :
      l \in SeqsUpTo(EventLines, MaxLines),
      e \in { << >> } \cup { << x >> : x \in EndLines } }

\* Battle(battle_tag, username, logger, gen=9)
NewBattle ==
  [ team |-> << >>, available_moves |-> << >>, available_switches |-> {},
    force_switch |-> FALSE, finished |-> FALSE, won |-> PyNone ]

TeamKeys(team) == { team[k].ident : k \in 1..Len(team) }

\* team[ident]
TeamEntry(team, ident) ==
  team[CHOOSE k \in 1..Len(team) : team[k].ident = ident]

\* an entry is created when an identity is seen for the first time
WithEntry(team, ident) ==
  IF ident \in TeamKeys(team) THEN team
  ELSE Append(team, [ ident |-> ident, fainted |-> FALSE ])

RECURSIVE WithEntries(_, _)
WithEntries(team, idents) ==
  IF idents = << >> THEN team
  ELSE WithEntries(WithEntry(team, Head(idents)), Tail(idents))

\* Battle.parse_request: the legal choices are recomputed from the request and
\* the Pokémon it lists are reconciled with the team by identity
parse_request(b, request) ==
  LET team == WithEntries(b.team, request.pokemon)
  IN [ b EXCEPT
         !.team = team,
         !.available_moves = IF request.forceSwitch THEN << >> ELSE request.moves,
         !.available_switches =
            { request.pokemon[k] : k \in 2..Len(request.pokemon) }
              \ { i \in TeamKeys(team) : TeamEntry(team, i).fainted },
         !.force_switch = request.forceSwitch ]

\* Battle.won_by, Battle.tied
won_by(b, name) == [ b EXCEPT !.finished = TRUE, !.won = PyStr(name) ]

tied(b) == [ b EXCEPT !.finished = TRUE ]

\* Battle.parse_message: the events change the entries of the team
parse_message(b, line) ==
  CASE line[2] = "faint" ->
         [ b EXCEPT !.team =
             [ k \in 1..Len(WithEntry(b.team, line[3])) |->
                 IF WithEntry(b.team, line[3])[k].ident = line[3]
                 THEN [ WithEntry(b.team, line[3])[k] EXCEPT !.fainted = TRUE ]
                 ELSE WithEntry(b.team, line[3])[k] ] ]
    [] line[2] = "switch" -> [ b EXCEPT !.team = WithEntry(b.team, line[3]) ]
    [] OTHER -> b

\* the body of observe's loop over the lines of the batch
ObserveLineKeepingOn(b, line) ==
  IF line[2] \in { "", "t:" } THEN b ELSE parse_message(b, line)

ObserveLine(b, line) ==
  IF line[2] \in { "", "t:" } THEN b
  ELSE IF line[2] = "win" THEN won_by(b, line[3])
  ELSE IF line[2] = "tie" THEN tied(b)
  ELSE parse_message(b, line)

RECURSIVE ObserveLines(_, _)
ObserveLines(b, lines) ==
  IF lines = << >> THEN b
  ELSE ObserveLines(ObserveLine(b, Head(lines)), Tail(lines))

\* battle.team rebuilt from the request: one entry per Pokémon the request
\* lists, in the request's order, each looked up by its identity
TeamOfRequest(team, request) ==
  [ k \in 1..Len(request.pokemon) |-> TeamEntry(team, request.pokemon[k]) ]

ObserveRequest(b, request) ==
  IF request = PyNone THEN b
  ELSE [ parse_request(b, request) EXCEPT
           !.team = TeamOfRequest(parse_request(b, request).team, request) ]

\* observe(battle): what it returns as the battle
observe(b, request, protocol) ==
  ObserveLines(
    ObserveRequest(IF b = PyNone THEN NewBattle ELSE b, request),
    Tail(protocol))

\* how the batch says the battle ended
EndOf(protocol) ==
  IF \E k \in 1..Len(protocol) : Len(protocol[k]) > 1 /\ protocol[k][2] = "win" THEN "win"
  ELSE IF \E k \in 1..Len(protocol) : Len(protocol[k]) > 1 /\ protocol[k][2] = "tie" THEN "tie"
  ELSE "no"

\* one call of observe on the tracked battle while the battle is running
Observe ==
  /\ IF obattle = PyNone THEN TRUE ELSE ~obattle.finished
  /\ \E request \in ObsRequests \cup { PyNone }, protocol \in Protocols :
       /\ obattle' = observe(obattle, request, protocol)
       /\ oseen' = [ request |-> request # PyNone,
                     listed |-> IF request = PyNone THEN {}
                                ELSE { request.pokemon[k] : k \in 1..Len(request.pokemon) },
                     ended |-> EndOf(protocol) ]
  /\ UNCHANGED << syncVars, codecVars, helperVars, clientVars, raceVars, baseVars, wrapVars >>

\* the next battle of the player starts from no battle
ObserveNextBattle ==
  /\ obattle # PyNone
  /\ obattle.finished
  /\ obattle' = PyNone
  /\ oseen' = [ request |-> FALSE, listed |-> {}, ended |-> "no" ]
  /\ UNCHANGED << syncVars, codecVars, helperVars, clientVars, raceVars, baseVars, wrapVars >>

ObserveInit ==
  /\ ObsIdle
  /\ SyncInit
  /\ CodecIdle
  /\ HelperIdle
  /\ ClientIdle
  /\ RaceIdle
  /\ BaseIdle
  /\ WrapIdle

ObserveNext ==
  \/ Observe
  \/ ObserveNextBattle

ObserveSpec == ObserveInit /\ [][ObserveNext]_vars

\* the battle as the call found it
Before == IF obattle = PyNone THEN NewBattle ELSE obattle

\* an observe call has returned whose batch came without a request and
\* announced the end of the battle
EndedWithoutRequest ==
  /\ obattle' # obattle
  /\ obattle' # PyNone
  /\ ~oseen'.request
  /\ oseen'.ended # "no"

\* C31: a battle that ends by a win or tie line in a batch read without a
\* request is marked finished by observe, and available_moves,
\* available_switches and force_switch stay as they were before the batch.
C31_EndWithoutRequestKeepsChoices ==
  [][ EndedWithoutRequest =>
        /\ obattle'.finished
        /\ obattle'.available_moves = Before.available_moves
        /\ obattle'.available_switches = Before.available_switches
        /\ obattle'.force_switch = Before.force_switch ]_vars

\* a battle with moves to choose from has ended by a batch without request
C31_Witness ==
  /\ obattle # PyNone
  /\ obattle.finished
  /\ ~oseen.request
  /\ oseen.ended = "win"
  /\ obattle.available_moves # << >>
  /\ obattle.available_switches # {}

\* C32: across the observe calls on one battle a team entry once present is
\* never removed and keeps its identity: after a request is merged every
\* entry present before is still in team under the same identity key,
\* whatever order or subset of the Pokémon the request lists.
C32_TeamEntriesNeverRemoved ==
  [][ obattle # PyNone /\ obattle' # PyNone =>
        \A i \in TeamKeys(obattle.team) :
          /\ i \in TeamKeys(obattle'.team)
          /\ TeamEntry(obattle'.team, i).ident = i ]_vars

\* the team holds fewer entries than the Pokémon seen so far: the last request
\* listed only a part of them
C32_EntryDropped ==
  /\ obattle # PyNone
  /\ oseen.request
  /\ oseen.listed = { "p1: Bulu" }
  /\ TeamKeys(obattle.team) = { "p1: Bulu" }
  /\ obattle.available_moves # << >>

\* a request that lists the whole team in another order keeps every entry,
\* with what is known about it
C32_ReorderKeepsEntries ==
  [][ /\ obattle # PyNone /\ obattle' # PyNone
      /\ oseen'.request
      /\ TeamKeys(obattle.team) \subseteq oseen'.listed
      => \A i \in TeamKeys(obattle.team) :
           /\ i \in TeamKeys(obattle'.team)
           /\ TeamEntry(obattle.team, i).fainted => TeamEntry(obattle'.team, i).fainted ]_vars

\* ---------------------------------------------------------------------------
\* BaseEnv._reset_async (showdown/base_env.py 85-121) statement by statement:
\* the challenge / accept handshake and its retry loop. HandshakeSpec draws
\* the outcome of every call to the server from: it returns, it raises
\* PopupError with one of two texts, it raises another error.

\* popups answered to challenge / accept within one reset
MaxPopups == 2

\* the texts of the popups, as the tokens find_message raises them with
PopupTexts ==
  { << "Sorry.", Spam >>, Word("The user is offline.") }

\* how a call to the server ends
Returned == [ outcome |-> "ok", text |-> << >> ]

PopupError(text) == [ outcome |-> "PopupError", text |-> text ]

OtherError == [ outcome |-> "TimeoutError", text |-> << >> ]

Outcomes == { Returned, OtherError } \cup { PopupError(t) : t \in PopupTexts }

\* one statement of the handshake, with how it ended
Shook(who, what, how) ==
  [ who |-> who, what |-> what, outcome |-> how.outcome, text |-> how.text ]

Slept(seconds) ==
  [ who |-> "env", what |-> "sleep", outcome |-> "ok", text |-> << >>,
    seconds |-> seconds ]

\* time.sleep after a popup: five hours on the rate-limit text, five seconds
\* otherwise
BackoffShort(e1) == 5

Backoff(e1) == IF Contains(e1, Spam) THEN 5 * 60 * 60 ELSE 5

\* the popups of challenge / accept in the transcript
HandshakePopups(t) ==
  { k \in 1..Len(t) : t[k].what \in { "challenge", "accept" } /\ t[k].outcome = "PopupError" }

\* e1: the popup the except clause is handling
e1(t) == t[CHOOSE k \in HandshakePopups(t) : \A j \in HandshakePopups(t) : j <= k].text

\* an error that is not a PopupError leaves _reset_async
Propagates(how) ==
  /\ bpc' = "idle"
  /\ bret' = how.outcome

\* await self.env_player.leave(); an env is followed up to its first reset
\* that returns
ResetLeave ==
  /\ bpc = "idle"
  /\ bret # "returned"
  /\ bpc' = "reset_challenge"
  /\ transcript' = << >>
  /\ bret' = "none"
  /\ UNCHANGED << base_agent_battle, agent_request, env_player_battle,
                  env_player_request, syncVars, codecVars, helperVars,
                  clientVars, raceVars, obsVars, wrapVars >>

\* await self.agent.challenge(self.env_player, self.battle_format)
ResetChallenge ==
  /\ bpc = "reset_challenge"
  /\ \E how \in Outcomes :
       /\ how.outcome = "PopupError" => Cardinality(HandshakePopups(transcript)) < MaxPopups
       /\ transcript' = Append(transcript, Shook("agent", "challenge", how))
       /\ CASE how.outcome = "ok" -> bpc' = "reset_accept" /\ UNCHANGED bret
            [] how.outcome = "PopupError" -> bpc' = "reset_cancel" /\ UNCHANGED bret
            [] OTHER -> Propagates(how)
  /\ UNCHANGED << base_agent_battle, agent_request, env_player_battle,
                  env_player_request, syncVars, codecVars, helperVars,
                  clientVars, raceVars, obsVars, wrapVars >>

\* room = await self.env_player.accept(self.agent); break
ResetAccept ==
  /\ bpc = "reset_accept"
  /\ \E how \in Outcomes :
       /\ how.outcome = "PopupError" => Cardinality(HandshakePopups(transcript)) < MaxPopups
       /\ transcript' = Append(transcript, Shook("env_player", "accept", how))
       /\ CASE how.outcome = "ok" -> bpc' = "reset_join" /\ UNCHANGED bret
            [] how.outcome = "PopupError" -> bpc' = "reset_cancel" /\ UNCHANGED bret
            [] OTHER -> Propagates(how)
  /\ UNCHANGED << base_agent_battle, agent_request, env_player_battle,
                  env_player_request, syncVars, codecVars, helperVars,
                  clientVars, raceVars, obsVars, wrapVars >>

\* except PopupError as e1: await self.agent.cancel(self.env_player), whose
\* own PopupError is logged and dropped
ResetCancel ==
  /\ bpc = "reset_cancel"
  /\ \E how \in Outcomes :
       /\ transcript' = Append(transcript, Shook("agent", "cancel", how))
       /\ IF how.outcome \in { "ok", "PopupError" }
            THEN bpc' = "reset_sleep" /\ UNCHANGED bret
            ELSE Propagates(how)
  /\ UNCHANGED << base_agent_battle, agent_request, env_player_battle,
                  env_player_request, syncVars, codecVars, helperVars,
                  clientVars, raceVars, obsVars, wrapVars >>

\* time.sleep(...), and the loop starts over
ResetSleep ==
  /\ bpc = "reset_sleep"
  /\ transcript' = Append(transcript, Slept(Backoff(e1(transcript))))
  /\ bpc' = "reset_challenge"
  /\ UNCHANGED << base_agent_battle, agent_request, env_player_battle,
                  env_player_request, bret, syncVars, codecVars, helperVars,
                  clientVars, raceVars, obsVars, wrapVars >>

\* await self.agent.join(room); await self.env_player.join(room)
ResetJoin ==
  /\ bpc = "reset_join"
  /\ transcript' = transcript \o << Shook("agent", "join", Returned),
                                    Shook("env_player", "join", Returned) >>
  /\ bpc' = "reset_observe_agent"
  /\ UNCHANGED << base_agent_battle, agent_request, env_player_battle,
                  env_player_request, bret, syncVars, codecVars, helperVars,
                  clientVars, raceVars, obsVars, wrapVars >>

HandshakeNext ==
  \/ ResetLeave
  \/ ResetChallenge
  \/ ResetAccept
  \/ ResetCancel
  \/ ResetSleep
  \/ ResetJoin
  \/ ObserveAgent
  \/ ObserveEnvPlayer

HandshakeSpec == BaseInit /\ [][HandshakeNext]_vars

\* the statements of the handshake among the events of the reset
IsShake(ev) == ev.what \in { "challenge", "accept", "cancel", "sleep", "join" }

\* the k-th event is a popup answered to challenge or accept
PopupAt(k) == k \in HandshakePopups(transcript)

\* what follows a popup: a cancel, then (unless the cancel raised another
\* error) the backoff the text asks for, then a new challenge
RetriedAfter(k) ==
  /\ Len(transcript) > k =>
       /\ transcript[k + 1].what = "cancel"
       /\ transcript[k + 1].outcome = "TimeoutError" =>
            Len(transcript) = k + 1 /\ bpc = "idle" /\ bret = "TimeoutError"
  /\ Len(transcript) > k + 1 =>
       /\ transcript[k + 1].outcome \in { "ok", "PopupError" }
       /\ transcript[k + 2].what = "sleep"
       /\ transcript[k + 2].seconds =
            (IF Contains(transcript[k].text, Spam) THEN 18000 ELSE 5)
  /\ Len(transcript) > k + 2 => transcript[k + 3].what = "challenge"

\* the room is joined right after a challenge and an accept that both returned
JoinedAfterHandshake(k) ==
  /\ k > 2
  /\ transcript[k - 1].what = "accept" /\ transcript[k - 1].outcome = "ok"
  /\ transcript[k - 2].what = "challenge" /\ transcript[k - 2].outcome = "ok"

\* an error other than PopupError ends the reset with that error
Propagated(k) ==
  /\ k = Len(transcript)
  /\ bpc = "idle"
  /\ bret = transcript[k].outcome

\* C33: in BaseEnv reset a PopupError of challenge or accept is caught, a
\* cancel is attempted (its own PopupError is swallowed), the loop backs off
\* (five hours on the rate-limit text, five seconds otherwise) and the
\* handshake is retried; the room is joined only after a handshake without
\* popup, and any other error reaches the caller.
C33_PopupRetriesHandshake ==
  \A k \in 1..Len(transcript) :
    /\ PopupAt(k) => RetriedAfter(k)
    /\ (transcript[k].what = "join" /\ transcript[k].who = "agent") => JoinedAfterHandshake(k)
    /\ (IsShake(transcript[k]) /\ transcript[k].outcome = "TimeoutError") => Propagated(k)

\* a reset has returned after a rate-limit popup to the challenge, a popup to
\* the cancel, and another popup to the accept of the second round
C33_Witness ==
  /\ bpc = "idle" /\ bret = "returned"
  /\ Len(transcript) >= 11
  /\ transcript[1].what = "challenge" /\ Contains(transcript[1].text, Spam)
  /\ transcript[2].what = "cancel" /\ transcript[2].outcome = "PopupError"
  /\ transcript[3].what = "sleep" /\ transcript[3].seconds = 18000
  /\ transcript[5].what = "accept" /\ transcript[5].outcome = "PopupError"
  /\ transcript[7].what = "sleep" /\ transcript[7].seconds = 5
  /\ transcript[10].what = "join"

\* an error that is not a popup has ended a reset
C33_WitnessError ==
  /\ bpc = "idle" /\ bret = "TimeoutError"
  /\ transcript # << >>
  /\ transcript[Len(transcript)].what = "accept"
====
